---- MODULE Spec2Model ----
(***************************************************************************)
(* Model of the Scope DOM-extraction content script: the message handlers  *)
(* of content/index.js and the comprehensive filter pipeline               *)
(* (FilterPipeline.applyComprehensiveFiltering) with its stages.           *)
(*                                                                         *)
(* JavaScript is single threaded: a handler runs to its next await of a    *)
(* real asynchronous operation.  The variable "active" names the pipeline  *)
(* run that holds the thread; messages are delivered and awaited calls     *)
(* complete only while it is 0.                                            *)
(*                                                                         *)
(* Numbers: areas and coordinates are integers (CSS pixels); ratios are    *)
(* kept as fractions and compared by cross multiplication; thresholds are  *)
(* percentages.                                                            *)
(***************************************************************************)
EXTENDS Integers, Sequences, FiniteSets, TLC

\* ------------------------------------------------------------------ bounds
\* selectors in one COMPREHENSIVE_FILTER payload
MaxSelectors == 4
\* messages delivered to the content script's onMessage listener
MaxMessages == 2
\* elements handed to applyLLMAnalysis in the study of its progress steps
MaxClassified == 56

\* ------------------------------------------------- THRESHOLDS (constants.js)
IOU_CONTAINMENT == 70
IOU_DEDUPE == 90
VISIBILITY_POINTS == 60
VIEWPORT_MARGIN == 50
MIN_SURVIVORS_PER_STAGE == 3
\* applyLLMAnalysis: const batchSize = 5
batchSize == 5
\* clusterDeduplicateElements: sim >= 0.9
CLUSTER_SIMILARITY == 90

\* ------------------------------------------------------------ the host page
\* window.innerWidth / innerHeight and scroll offsets of the inspected tab
Window == [innerWidth |-> 1000, innerHeight |-> 800, scrollTop |-> 0, scrollLeft |-> 0]

Visible == [display |-> "block", visibility |-> "visible", opacity |-> 100,
            transform |-> "none", clipPath |-> "none"]

\* The attributes of an element without any.  data: the name of the element's
\* data attribute ("" for none); element.hasAttribute("data-") asks for an
\* attribute of exactly that name.
Plain == [role |-> "", href |-> "", icon |-> "", uiClass |-> FALSE, uiId |-> FALSE,
          onclick |-> FALSE, cursor |-> "auto", children |-> 0, aria |-> FALSE,
          inForm |-> FALSE, data |-> "", meaningfulId |-> FALSE,
          classes |-> {}]

\* The elements of the page (what document.querySelector can return).  Each
\* record is the snapshot the pipeline reads through the DOM API: tagName,
\* getAttribute, innerText, getBoundingClientRect, getComputedStyle,
\* elementFromPoint (center: the center point hits the element; pts: how many
\* of the nine test points do).
Dom == <<
  [tag |-> "button", text |-> <<"O", "K">>, rect |-> [x |-> 10, y |-> 10, width |-> 100, height |-> 40],
   style |-> Visible, center |-> TRUE, pts |-> 9, attrs |-> Plain],
  [tag |-> "a", text |-> <<"W", "o", "w">>, rect |-> [x |-> 10, y |-> 100, width |-> 80, height |-> 20],
   style |-> Visible, center |-> TRUE, pts |-> 9, attrs |-> [Plain EXCEPT !.href = "/home"]],
  [tag |-> "a", text |-> <<"w", "o", "w", " ">>, rect |-> [x |-> 10, y |-> 200, width |-> 80, height |-> 20],
   style |-> Visible, center |-> TRUE, pts |-> 9, attrs |-> [Plain EXCEPT !.href = "/home"]],
  [tag |-> "div", text |-> <<>>, rect |-> [x |-> 200, y |-> 10, width |-> 40, height |-> 40],
   style |-> Visible, center |-> TRUE, pts |-> 9, attrs |-> Plain],
  [tag |-> "div", text |-> <<>>, rect |-> [x |-> 200, y |-> 100, width |-> 50, height |-> 50],
   style |-> Visible, center |-> TRUE, pts |-> 9, attrs |-> Plain],
  [tag |-> "div", text |-> <<" ">>, rect |-> [x |-> 200, y |-> 200, width |-> 50, height |-> 50],
   style |-> Visible, center |-> TRUE, pts |-> 9, attrs |-> Plain],
  [tag |-> "div", text |-> <<>>, rect |-> [x |-> 200, y |-> 300, width |-> 50, height |-> 50],
   style |-> Visible, center |-> TRUE, pts |-> 6, attrs |-> Plain],
  [tag |-> "div", text |-> <<>>, rect |-> [x |-> 200, y |-> 300, width |-> 50, height |-> 52],
   style |-> Visible, center |-> TRUE, pts |-> 9, attrs |-> [Plain EXCEPT !.cursor = "pointer"]],
  [tag |-> "nav", text |-> <<>>, rect |-> [x |-> 300, y |-> 10, width |-> 300, height |-> 200],
   style |-> Visible, center |-> TRUE, pts |-> 5, attrs |-> [Plain EXCEPT !.role = "navigation"]],
  [tag |-> "span", text |-> <<"w", "!">>, rect |-> [x |-> 0, y |-> 0, width |-> 0, height |-> 0],
   style |-> [Visible EXCEPT !.display = "none"], center |-> FALSE, pts |-> 0, attrs |-> Plain]
>>

DomIds == 1..Len(Dom)

\* The elements of a second page, for the studies of single functions: three
\* boxes that overlap almost wholly (x from 0 to 100, 0 to 105, 5 to 110),
\* two small boxes inside them, a large div with an onclick handler, and a
\* link with the text of Dom elements 2 and 3 nearer to the top-left corner.
Page2 == <<
  [tag |-> "div", text |-> <<>>, rect |-> [x |-> 0, y |-> 400, width |-> 100, height |-> 10],
   style |-> Visible, center |-> TRUE, pts |-> 9, attrs |-> Plain],
  [tag |-> "div", text |-> <<>>, rect |-> [x |-> 5, y |-> 400, width |-> 105, height |-> 10],
   style |-> Visible, center |-> TRUE, pts |-> 9, attrs |-> Plain],
  [tag |-> "div", text |-> <<>>, rect |-> [x |-> 0, y |-> 400, width |-> 105, height |-> 10],
   style |-> Visible, center |-> TRUE, pts |-> 9, attrs |-> Plain],
  [tag |-> "div", text |-> <<>>, rect |-> [x |-> 10, y |-> 400, width |-> 20, height |-> 10],
   style |-> Visible, center |-> TRUE, pts |-> 9, attrs |-> Plain],
  [tag |-> "div", text |-> <<>>, rect |-> [x |-> 40, y |-> 400, width |-> 20, height |-> 10],
   style |-> Visible, center |-> TRUE, pts |-> 9, attrs |-> Plain],
  [tag |-> "div", text |-> <<>>, rect |-> [x |-> 300, y |-> 400, width |-> 40, height |-> 40],
   style |-> Visible, center |-> TRUE, pts |-> 9, attrs |-> [Plain EXCEPT !.onclick = TRUE]],
  [tag |-> "a", text |-> <<"W", "O", "W">>, rect |-> [x |-> 0, y |-> 50, width |-> 80, height |-> 20],
   style |-> Visible, center |-> TRUE, pts |-> 9, attrs |-> [Plain EXCEPT !.href = "/home"]],
  \* an element that was removed from the document after it was resolved:
  \* getBoundingClientRect gives zeros, getComputedStyle empty strings
  [tag |-> "div", text |-> <<>>, rect |-> [x |-> 0, y |-> 0, width |-> 0, height |-> 0],
   style |-> [Visible EXCEPT !.display = ""], center |-> FALSE, pts |-> 0, attrs |-> Plain],
  [tag |-> "button", text |-> <<>>, rect |-> [x |-> 500, y |-> 400, width |-> 40, height |-> 20],
   style |-> Visible, center |-> TRUE, pts |-> 9, attrs |-> Plain],
  \* <div data-testid="card">
  [tag |-> "div", text |-> <<>>, rect |-> [x |-> 600, y |-> 400, width |-> 40, height |-> 40],
   style |-> Visible, center |-> TRUE, pts |-> 9, attrs |-> [Plain EXCEPT !.data = "data-testid"]]
>>

\* The ids of the elements of the second page follow the selector values
Page2Id(k) == Len(Dom) + 3 + k
Page2Ids == {Page2Id(k) : k \in 1..Len(Page2)}

\* The document the content script runs in: its elements by id.  The script
\* reads it and never changes it.
VARIABLES document
Pages == [id \in DomIds \cup Page2Ids |-> IF id \in DomIds THEN Dom[id] ELSE Page2[id - Page2Id(0)]]

\* A selector is the unique CSS path of a page element (its index in Dom), or
\* NotFound: a path of the last scan that no longer matches any element.
NotFound == Len(Dom) + 1
Selectors == DomIds \cup {NotFound}

\* ----------------------------------------------------------------- helpers
Min(a, b) == IF a < b THEN a ELSE b
Max(a, b) == IF a > b THEN a ELSE b
MinOf(S) == CHOOSE x \in S : \A y \in S : x <= y
Range(s) == {s[i] : i \in 1..Len(s)}
Take(s, n) == SubSeq(s, 1, Min(n, Len(s)))
\* JavaScript Array.prototype.includes / filter on the model's sequences
Includes(s, e) == \E i \in 1..Len(s) : s[i] = e
\* The subsequence of s at the positions in I, in order
SubseqAt(s, I) ==
  LET F[k \in 0..Len(s)] ==
        IF k = 0 THEN <<>>
        ELSE IF k \in I THEN Append(F[k - 1], s[k]) ELSE F[k - 1]
  IN F[Len(s)]

\* Strictly increasing sequences over S of length at most n: the selector
\* lists a scan produces (unique paths, document order).
RECURSIVE IncreasingSeqs(_, _)
IncreasingSeqs(S, n) ==
  IF n = 0 \/ S = {} THEN {<<>>}
  ELSE LET m == MinOf(S)
           rest == IncreasingSeqs(S \ {m}, n)
           with == {<<m>> \o t : t \in IncreasingSeqs(S \ {m}, n - 1)}
       IN rest \cup with

\* ------------------------------------------------------------ candidates
\* A list entry of the pipeline.  dom: the entry is the DOM Element itself
\* (it has the prototype methods getBoundingClientRect, getAttribute, and
\* tagName); a spread copy {...element, confidence} is a plain object holding
\* only own enumerable properties.  hasRect: the object has an own property
\* "rect" (no DOM Element has; nothing in the repository assigns one).
NoConfidence == 0 - 1
Element(id) == [id |-> id, dom |-> TRUE, hasRect |-> FALSE, confidence |-> NoConfidence]
Node(e) == document[e.id]
\* cacheSelector(element): the unique CSS path, the key of removedReasons
cacheSelector(e) == e.id
\* element.getBoundingClientRect()
getBoundingClientRect(e) == Node(e).rect

\* -------------------------------------------------- geometry (geometry.js)
calculateArea(rect) == rect.width * rect.height

calculateIntersection(rectA, rectB) ==
  LET left == Max(rectA.x, rectB.x)
      top == Max(rectA.y, rectB.y)
      right == Min(rectA.x + rectA.width, rectB.x + rectB.width)
      bottom == Min(rectA.y + rectA.height, rectB.y + rectB.height)
  IN IF left >= right \/ top >= bottom THEN 0
     ELSE (right - left) * (bottom - top)

calculateUnion(rectA, rectB) ==
  calculateArea(rectA) + calculateArea(rectB) - calculateIntersection(rectA, rectB)

\* A ratio num/den with den > 0
Ratio(num, den) == [num |-> num, den |-> den]
\* ratio > pct/100 and ratio >= pct/100
Exceeds(r, pct) == 100 * r.num > pct * r.den
AtLeast(r, pct) == 100 * r.num >= pct * r.den

\* A variant that divides by the sum of the two areas
calculateIoUOverSum(rectA, rectB) ==
  LET intersection == calculateIntersection(rectA, rectB)
      sum == calculateArea(rectA) + calculateArea(rectB)
  IN IF sum > 0 THEN Ratio(intersection, sum) ELSE Ratio(0, 1)

calculateIoU(rectA, rectB) ==
  LET intersection == calculateIntersection(rectA, rectB)
      union == calculateUnion(rectA, rectB)
  IN IF union > 0 THEN Ratio(intersection, union) ELSE Ratio(0, 1)

\* DeduplicationFilter.isContained / calculateContainment
isContained(inner, outer) ==
  /\ inner.x >= outer.x
  /\ inner.y >= outer.y
  /\ inner.x + inner.width <= outer.x + outer.width
  /\ inner.y + inner.height <= outer.y + outer.height

calculateContainment(inner, outer) ==
  LET intersection == calculateIntersection(inner, outer)
      areaInner == calculateArea(inner)
  IN IF areaInner > 0 THEN Ratio(intersection, areaInner) ELSE Ratio(0, 1)

\* ------------------------------------------------------------------- text
\* String.prototype.toLowerCase and trim on character sequences
LowerChar(c) ==
  CASE c = "O" -> "o" [] c = "K" -> "k" [] c = "W" -> "w" [] OTHER -> c
toLowerCase(t) == [i \in 1..Len(t) |-> LowerChar(t[i])]
IsSpace(c) == c = " "
RECURSIVE trimStart(_)
trimStart(t) == IF t # <<>> /\ IsSpace(Head(t)) THEN trimStart(Tail(t)) ELSE t
RECURSIVE trimEnd(_)
trimEnd(t) ==
  IF t # <<>> /\ IsSpace(t[Len(t)]) THEN trimEnd(SubSeq(t, 1, Len(t) - 1)) ELSE t
trim(t) == trimEnd(trimStart(t))
\* element.innerText?.trim() || ""
innerTextTrimmed(e) == trim(Node(e).text)

\* extractElementSignature: text.trim().toLowerCase().replace(/[^\\w\s]/g, "")
\* The character class [^\\w\s] is "not a backslash, not the letter w, not
\* white space": every other character is deleted.
KeptBySignature(c) == c = "\\" \/ c = "w" \/ IsSpace(c)
extractElementSignature(e) ==
  [el |-> e,
   text |-> SelectSeq(toLowerCase(trim(Node(e).text)), KeptBySignature),
   href |-> Node(e).attrs.href,
   icon |-> Node(e).attrs.icon]

\* cosineSimilarity of two embedding vectors, in percent.  The sentence
\* encoder is a function of the text: equal texts give equal vectors.
cosineSimilarity(a, b) == IF a = b THEN 100 ELSE 50

\* ------------------------------------------------------ stage results
\* {survivors, removedReasons}: removed is the key set of the removedReasons
\* map.  threw: the stage raised an exception instead of returning.
StageResult(survivors, removed) == [survivors |-> survivors, removed |-> removed, threw |-> FALSE]
Thrown == [survivors |-> <<>>, removed |-> {}, threw |-> TRUE]

\* FilterPipeline.isInteractiveElement (on a DOM Element)
isInteractiveElement(e) ==
  \/ Node(e).tag \in {"button", "input", "select", "textarea", "a"}
  \/ Node(e).attrs.role = "button"
  \/ Node(e).attrs.role = "link"
  \/ Node(e).attrs.onclick

\* Variant without the backfill: the filtered list is handed on as it is
ensureMinimumSurvivorsNoBackfill(elements, originalElements) == elements

\* FilterPipeline.ensureMinimumSurvivors
ensureMinimumSurvivors(elements, originalElements) ==
  LET minSurvivors == MIN_SURVIVORS_PER_STAGE
      NotKept(el) == ~Includes(elements, el)
  IN IF Len(elements) >= minSurvivors THEN elements
     ELSE IF Len(elements) > 0
          THEN elements \o Take(SelectSeq(originalElements, NotKept), minSurvivors - Len(elements))
          ELSE Take(originalElements, minSurvivors)

\* FilterPipeline.convertSelectorsToElements: document.querySelector per
\* selector; a selector that matches nothing is recorded and skipped.
convertSelectorsToElements(selectors) ==
  LET Found(sel) == sel \in DomIds
      found == SelectSeq(selectors, Found)
  IN [elements |-> [i \in 1..Len(found) |-> Element(found[i])],
      removedSelectors |-> {selectors[i] : i \in {k \in 1..Len(selectors) : ~Found(selectors[k])}}]

\* A top-level pass made the way the IoU deduplication is made: against the
\* elements accepted so far, a larger newcomer taking the place of the
\* accepted element it overlaps
RECURSIVE AcceptedSetFrom(_, _, _, _)
AcceptedSetFrom(elements, i, unique, removed) ==
  IF i > Len(elements) THEN StageResult(unique, removed)
  ELSE
    LET rectA == getBoundingClientRect(elements[i])
        hits == {j \in 1..Len(unique) :
                   Exceeds(calculateIoU(rectA, getBoundingClientRect(unique[j])), IOU_DEDUPE)}
    IN IF hits = {} THEN AcceptedSetFrom(elements, i + 1, Append(unique, elements[i]), removed)
       ELSE IF calculateArea(rectA) > calculateArea(getBoundingClientRect(unique[MinOf(hits)]))
       THEN AcceptedSetFrom(elements, i + 1, [unique EXCEPT ![MinOf(hits)] = elements[i]],
                            removed \cup {cacheSelector(unique[MinOf(hits)])})
       ELSE AcceptedSetFrom(elements, i + 1, unique, removed \cup {cacheSelector(elements[i])})

applyTopLevelFilteringAgainstAccepted(elements) == AcceptedSetFrom(elements, 1, <<>>, {})

\* FilterPipeline.applyTopLevelFilteringWithReasons (one pass)
applyTopLevelFilteringWithReasons(elements) ==
  IF Len(elements) > 0 /\ ~elements[1].dom THEN StageResult(<<>>, {})
  ELSE
    LET IsValid(el) == el.dom
        validElements == SelectSeq(elements, IsValid)
        n == Len(validElements)
        rectOf(i) == getBoundingClientRect(validElements[i])
        Container(i) == {j \in 1..n : /\ i # j
                                      /\ Exceeds(calculateIoU(rectOf(i), rectOf(j)), IOU_CONTAINMENT)
                                      /\ calculateArea(rectOf(i)) < calculateArea(rectOf(j))}
        top == {i \in 1..n : Container(i) = {}}
    IN IF n = 0 THEN StageResult(<<>>, {})
       ELSE StageResult(SubseqAt(validElements, top),
                        {cacheSelector(validElements[i]) : i \in (1..n) \ top})

\* visibility.js isTransformVisible / isClipPathVisible
isTransformVisible(transform) == transform \notin {"scale(0)", "scaleX(0)", "scaleY(0)"}
isClipPathVisible(clipPath) == clipPath \notin {"inset(100%)", "inset(0 0 0 100%)"}

\* visibility.js isBasicVisible
isBasicVisible(e) ==
  LET style == Node(e).style
      r == Node(e).rect
  IN /\ ~(\/ style.display = "none"
          \/ style.visibility = "hidden"
          \/ style.opacity = 0
          \/ r.width <= 0
          \/ r.height <= 0)
     /\ isTransformVisible(style.transform)
     /\ isClipPathVisible(style.clipPath)
     /\ ~(\/ r.y + r.height < 0 - VIEWPORT_MARGIN
          \/ r.y > Window.innerHeight + VIEWPORT_MARGIN
          \/ r.x + r.width < 0 - VIEWPORT_MARGIN
          \/ r.x > Window.innerWidth + VIEWPORT_MARGIN)
     /\ Node(e).center

\* VisibilityFilter.applyComprehensiveVisibilityFilteringWithReasons
\* (pass 1: CSS visibility; pass 2: viewport bounds and nine-point occlusion)
\* getVisibilityFailureReason(element, rect): the reason of a pass-1 removal
getVisibilityFailureReason(e) ==
  LET style == Node(e).style
      r == Node(e).rect
  IN IF style.display = "none" THEN "display: none"
     ELSE IF style.visibility = "hidden" THEN "visibility: hidden"
     ELSE IF style.opacity < 1 THEN "opacity"
     ELSE IF r.width <= 0 \/ r.height <= 0 THEN "zero dimensions"
     ELSE IF \/ r.x + r.width < 0 \/ r.y + r.height < 0
             \/ r.x > Window.innerWidth \/ r.y > Window.innerHeight THEN "off-screen"
     ELSE "not visible"

\* What pass 1 records for a candidate it removes: "Invalid element" for a
\* falsy candidate or one without getBoundingClientRect, else the reason above
cssRemovedReason(e) ==
  IF ~e.dom THEN "Invalid element" ELSE getVisibilityFailureReason(e)

applyComprehensiveVisibilityFilteringWithReasons(elements) ==
  LET CssOk(el) == el.dom /\ isBasicVisible(el)
      cssSurvivors == SelectSeq(elements, CssOk)
      cssRemoved == {cacheSelector(elements[i]) : i \in {k \in 1..Len(elements) : ~CssOk(elements[k])}}
      OffScreen(el) ==
        LET rect == getBoundingClientRect(el)
        IN \/ rect.y + rect.height + Window.scrollTop < 0
           \/ rect.y + Window.scrollTop > Window.innerHeight + Window.scrollTop
           \/ rect.x + rect.width + Window.scrollLeft < 0
           \/ rect.x + Window.scrollLeft > Window.innerWidth + Window.scrollLeft
      Occluded(el) == ~AtLeast(Ratio(Node(el).pts, 9), VISIBILITY_POINTS)
      Passes(el) == ~OffScreen(el) /\ ~Occluded(el)
  IN StageResult(SelectSeq(cssSurvivors, Passes),
                 cssRemoved \cup {cacheSelector(cssSurvivors[i]) :
                                    i \in {k \in 1..Len(cssSurvivors) : ~Passes(cssSurvivors[k])}})

\* DeduplicationFilter.applyIoUDeduplicationWithReasons
RECURSIVE IoUDedupFrom(_, _, _, _, _)
IoUDedupFrom(elements, threshold, i, unique, removed) ==
  IF i > Len(elements) THEN StageResult(unique, removed)
  ELSE
    LET rectA == getBoundingClientRect(elements[i])
        hits == {j \in 1..Len(unique) :
                   Exceeds(calculateIoU(rectA, getBoundingClientRect(unique[j])), threshold)}
    IN IF hits = {} THEN IoUDedupFrom(elements, threshold, i + 1, Append(unique, elements[i]), removed)
       ELSE
         LET j == MinOf(hits)
         IN IF calculateArea(rectA) > calculateArea(getBoundingClientRect(unique[j]))
            THEN IoUDedupFrom(elements, threshold, i + 1, [unique EXCEPT ![j] = elements[i]],
                              removed \cup {cacheSelector(unique[j])})
            ELSE IoUDedupFrom(elements, threshold, i + 1, unique,
                              removed \cup {cacheSelector(elements[i])})

applyIoUDeduplicationWithReasons(elements, threshold) ==
  IF \E i \in 1..Len(elements) : ~elements[i].dom THEN Thrown
  ELSE IoUDedupFrom(elements, threshold, 1, <<>>, {})

\* FilterPipeline.filterStructuralElementsWithReasons
StructuralKeep(e) ==
  LET tag == Node(e).tag
      a == Node(e).attrs
  IN \/ isInteractiveElement(e)
     \/ tag \in {"nav", "header", "footer", "main", "section", "article", "aside"}
     \/ a.role \in {"navigation", "banner", "contentinfo", "main", "search", "menuitem", "tab"}
     \/ /\ tag \in {"div", "span"}
        /\ (a.data = "data-" \/ a.uiClass \/ a.uiId \/ a.onclick \/ a.cursor = "pointer")
     \/ tag \in {"form", "fieldset", "legend", "optgroup", "option"}
     \/ Len(innerTextTrimmed(e)) > 0

filterStructuralElementsWithReasons(elements) ==
  IF Len(elements) > 0 /\ ~elements[1].dom THEN StageResult(<<>>, {})
  ELSE
    LET survivors == SelectSeq(elements, StructuralKeep)
        removedReasons == {cacheSelector(elements[i]) :
                             i \in {k \in 1..Len(elements) : ~StructuralKeep(elements[k])}}
    IN IF Len(survivors) = 0 /\ Len(elements) > 0
       THEN StageResult(Take(elements, 3), {})
       ELSE StageResult(survivors, removedReasons)

\* Variant that puts each interactive element at the front (unshift)
prioritizeInteractiveElementsUnshift(elements) ==
  LET NonInteractive(el) == ~isInteractiveElement(el)
      interactive == SelectSeq(elements, isInteractiveElement)
  IN [i \in 1..Len(interactive) |-> interactive[Len(interactive) + 1 - i]]
       \o SelectSeq(elements, NonInteractive)

\* FilterPipeline.prioritizeInteractiveElements
prioritizeInteractiveElements(elements) ==
  LET NonInteractive(el) == ~isInteractiveElement(el)
  IN SelectSeq(elements, isInteractiveElement) \o SelectSeq(elements, NonInteractive)

\* services/embedding.js embedText: the vector the encoder returns for a text
embedText(text) == [vector |-> text]

\* FilterPipeline.clusterDeduplicateElements, steps 3 and 4: items carry
\* their embedding in vec; reps holds the first item of every cluster.
RECURSIVE ClusterFrom(_, _, _)
ClusterFrom(items, i, reps) ==
  IF i > Len(items) THEN [k \in 1..Len(reps) |-> reps[k].el]
  ELSE
    LET item == items[i]
        placed == \E c \in 1..Len(reps) :
                     /\ item.href = reps[c].href
                     /\ item.icon = reps[c].icon
                     /\ cosineSimilarity(item.vec, reps[c].vec) >= CLUSTER_SIMILARITY
    IN ClusterFrom(items, i + 1, IF placed THEN reps ELSE Append(reps, item))

clusterCollapse(items) == ClusterFrom(items, 1, <<>>)

\* FilterPipeline.isFundamentalUIComponent
isFundamentalUIComponent(e) ==
  IF ~e.dom THEN [isFundamental |-> FALSE, reason |-> "Element no longer in DOM"]
  ELSE
    LET tag == Node(e).tag
        a == Node(e).attrs
        area == Node(e).rect.width * Node(e).rect.height
    IN CASE isInteractiveElement(e) -> [isFundamental |-> TRUE, reason |-> "Interactive element"]
         [] Len(innerTextTrimmed(e)) > 0 -> [isFundamental |-> TRUE, reason |-> "Has text content"]
         [] tag \in {"nav", "header", "footer", "main", "section", "article", "aside"} ->
              [isFundamental |-> TRUE, reason |-> "Structural tag"]
         [] a.role \in {"navigation", "banner", "contentinfo", "main", "region",
                        "complementary", "search", "form", "application", "document",
                        "content", "note", "log", "marquee", "status", "timer", "toolbar"} ->
              [isFundamental |-> TRUE, reason |-> "Landmark role"]
         [] area > 50000 -> [isFundamental |-> TRUE, reason |-> "Large area"]
         [] a.children >= 5 -> [isFundamental |-> TRUE, reason |-> "Many visible children"]
         [] a.aria -> [isFundamental |-> TRUE, reason |-> "Has ARIA attributes"]
         [] tag = "form" \/ a.inForm -> [isFundamental |-> TRUE, reason |-> "Form-related element"]
         [] a.data = "data-" -> [isFundamental |-> TRUE, reason |-> "Has data attributes"]
         [] a.meaningfulId -> [isFundamental |-> TRUE, reason |-> "Meaningful ID"]
         [] OTHER -> [isFundamental |-> FALSE, reason |-> "not fundamental"]

\* FilterPipeline.applyFinalQualityFilteringWithReasons
applyFinalQualityFilteringWithReasons(elements) ==
  IF Len(elements) > 0 /\ ~elements[1].dom THEN StageResult(<<>>, {})
  ELSE
    LET Fundamental(el) == isFundamentalUIComponent(el).isFundamental
    IN StageResult(SelectSeq(elements, Fundamental),
                   {cacheSelector(elements[i]) :
                      i \in {k \in 1..Len(elements) : ~Fundamental(elements[k])}})

\* FilterPipeline.calculateConfidence, in hundredths.  The last boost reads
\* element.rect.width: on an object without an own "rect" property that is a
\* TypeError.
\* Variant that measures the element with getBoundingClientRect() instead
\* of reading element.rect: only a spread copy makes it throw
ConfidenceFromBoundingRect(e) == ~e.dom

ConfidenceThrows(e) == ~e.dom \/ ~e.hasRect

calculateConfidence(e) ==
  LET interactive == IF isInteractiveElement(e) THEN 30 ELSE 0
      text == IF Len(innerTextTrimmed(e)) > 0 THEN 20 ELSE 0
      role == IF Node(e).attrs.role # "" THEN 10 ELSE 0
      area == IF Node(e).rect.width * Node(e).rect.height > 1000 THEN 10 ELSE 0
  IN Min(50 + interactive + text + role + area, 100)

\* FilterPipeline.applyConfidenceScoring: elements.map(e => ({...e, confidence}))
applyConfidenceScoring(elements) ==
  IF \E i \in 1..Len(elements) : ConfidenceThrows(elements[i]) THEN Thrown
  ELSE StageResult([i \in 1..Len(elements) |->
                      [elements[i] EXCEPT !.dom = FALSE,
                                          !.confidence = calculateConfidence(elements[i])]],
                   {})

\* FilterPipeline.sortByRelevance.  The comparator calls
\* isInteractiveElement(a) when two confidences are equal, which reads
\* a.tagName.toLowerCase(): a TypeError on a spread copy.
SortThrows(elements) ==
  \E i, j \in 1..Len(elements) :
    /\ i < j
    /\ elements[i].confidence = elements[j].confidence
    /\ (~elements[i].dom \/ ~elements[j].dom)

\* What isInteractiveElement returns, which the comparator compares with
\* !==: true for an interactive tag or role, else element.onclick (the handler
\* function of that element) when it is set, else getAttribute("onclick"),
\* which is null without a handler
isInteractiveValue(e) ==
  IF \/ Node(e).tag \in {"button", "input", "select", "textarea", "a"}
     \/ Node(e).attrs.role = "button"
     \/ Node(e).attrs.role = "link"
  THEN <<"true", 0>>
  ELSE IF Node(e).attrs.onclick THEN <<"function", e.id>> ELSE <<"null", 0>>

\* The comparator of sortByRelevance: the sign of the number it returns
compare(a, b) ==
  LET Sign(n) == IF n > 0 THEN 1 ELSE IF n < 0 THEN 0 - 1 ELSE 0
  IN IF a.confidence # b.confidence THEN Sign(b.confidence - a.confidence)
     ELSE IF isInteractiveValue(a) # isInteractiveValue(b)
          THEN (IF isInteractiveElement(b) THEN 1 ELSE 0 - 1)
     ELSE Sign(calculateArea(getBoundingClientRect(b)) - calculateArea(getBoundingClientRect(a)))

\* Array.prototype.sort of the engine the extension runs in, for an array
\* shorter than a minimal run.  First the leading run: descending while each
\* element compares below its predecessor (then reversed), else ascending
\* while it does not.
CountAndMakeRun(a) ==
  LET isDescending == compare(a[2], a[1]) < 0
      Continues(idx) == IF isDescending THEN compare(a[idx], a[idx - 1]) < 0
                        ELSE compare(a[idx], a[idx - 1]) >= 0
      runLength == CHOOSE r \in 2..Len(a) :
                     /\ \A idx \in 3..r : Continues(idx)
                     /\ r = Len(a) \/ ~Continues(r + 1)
  IN [array |-> IF isDescending
                THEN [i \in 1..Len(a) |-> IF i <= runLength THEN a[runLength + 1 - i] ELSE a[i]]
                ELSE a,
      runLength |-> runLength]

\* Then every further element is inserted where a binary search puts it
RECURSIVE BinarySearch(_, _, _, _)
BinarySearch(a, pivot, left, right) ==
  IF left >= right THEN left
  ELSE LET mid == left + ((right - left) \div 2)
       IN IF compare(pivot, a[mid]) < 0 THEN BinarySearch(a, pivot, left, mid)
          ELSE BinarySearch(a, pivot, mid + 1, right)

RECURSIVE BinaryInsertionSort(_, _)
BinaryInsertionSort(a, start) ==
  IF start > Len(a) THEN a
  ELSE LET left == BinarySearch(a, a[start], 1, start)
       IN BinaryInsertionSort(SubSeq(a, 1, left - 1) \o <<a[start]>> \o SubSeq(a, left, start - 1)
                                \o SubSeq(a, start + 1, Len(a)),
                              start + 1)

sortByRelevance(elements) ==
  IF SortThrows(elements) THEN Thrown
  ELSE IF Len(elements) < 2 THEN StageResult(elements, {})
  ELSE LET run == CountAndMakeRun(elements)
       IN StageResult(BinaryInsertionSort(run.array, run.runLength + 1), {})

\* DeduplicationFilter.applyLightDeduplicationWithReasons: the first
\* occurrence of a CSS path is kept
applyLightDeduplicationWithReasons(elements) ==
  LET first == {i \in 1..Len(elements) :
                  \A k \in 1..(i - 1) : cacheSelector(elements[k]) # cacheSelector(elements[i])}
  IN StageResult(SubseqAt(elements, first),
                 {cacheSelector(elements[i]) : i \in (1..Len(elements)) \ first})

\* DeduplicationFilter.applyContainmentDeduplicationWithReasons
RECURSIVE ContainmentDedupFrom(_, _, _, _, _)
ContainmentDedupFrom(elements, threshold, i, unique, removed) ==
  IF i > Len(elements) THEN StageResult(unique, removed)
  ELSE
    LET rectA == getBoundingClientRect(elements[i])
        AinB(j) == /\ isContained(rectA, getBoundingClientRect(unique[j]))
                   /\ Exceeds(calculateContainment(rectA, getBoundingClientRect(unique[j])), threshold)
        BinA(j) == /\ isContained(getBoundingClientRect(unique[j]), rectA)
                   /\ Exceeds(calculateContainment(getBoundingClientRect(unique[j]), rectA), threshold)
        hits == {j \in 1..Len(unique) : AinB(j) \/ BinA(j)}
    IN IF hits = {}
       THEN ContainmentDedupFrom(elements, threshold, i + 1, Append(unique, elements[i]), removed)
       ELSE
         LET j == MinOf(hits)
         IN IF AinB(j)
            THEN ContainmentDedupFrom(elements, threshold, i + 1, unique,
                                      removed \cup {cacheSelector(elements[i])})
            ELSE ContainmentDedupFrom(elements, threshold, i + 1,
                                      [unique EXCEPT ![j] = elements[i]],
                                      removed \cup {cacheSelector(unique[j])})

applyContainmentDeduplicationWithReasons(elements, threshold) ==
  ContainmentDedupFrom(elements, threshold, 1, <<>>, {})

\* DeduplicationFilter.applyTextBasedDeduplicationWithReasons
normalizedText(e) == toLowerCase(trim(Node(e).text))

RECURSIVE TextDedupFrom(_, _, _, _)
TextDedupFrom(elements, i, unique, removed) ==
  IF i > Len(elements) THEN StageResult(unique, removed)
  ELSE
    LET textA == normalizedText(elements[i])
        hits == {j \in 1..Len(unique) : textA = normalizedText(unique[j]) /\ Len(textA) > 0}
        score(el) == getBoundingClientRect(el).y + getBoundingClientRect(el).x
    IN IF hits = {} THEN TextDedupFrom(elements, i + 1, Append(unique, elements[i]), removed)
       ELSE
         LET j == MinOf(hits)
         IN IF score(elements[i]) < score(unique[j])
            THEN TextDedupFrom(elements, i + 1, [unique EXCEPT ![j] = elements[i]],
                               removed \cup {cacheSelector(unique[j])})
            ELSE TextDedupFrom(elements, i + 1, unique,
                               removed \cup {cacheSelector(elements[i])})

\* A variant that keeps the first candidate of each text, wherever it lies
applyTextBasedDeduplicationKeepFirst(elements) ==
  LET Same(i, j) == /\ normalizedText(elements[i]) = normalizedText(elements[j])
                    /\ Len(normalizedText(elements[i])) > 0
      first == {i \in 1..Len(elements) : ~\E j \in 1..(i - 1) : Same(i, j)}
  IN StageResult(SubseqAt(elements, first),
                 {cacheSelector(elements[i]) : i \in (1..Len(elements)) \ first})

applyTextBasedDeduplicationWithReasons(elements) == TextDedupFrom(elements, 1, <<>>, {})

\* DeduplicationFilter.applyFinalDeduplicationWithReasons: light, IoU,
\* containment, text.  On a spread copy computeUniqueCssPath returns null
\* and getBoundingClientRect is not a function: the pass throws.
applyFinalDeduplicationWithReasons(elements) ==
  IF \E i \in 1..Len(elements) : ~elements[i].dom THEN Thrown
  ELSE
    LET light == applyLightDeduplicationWithReasons(elements)
        iou == applyIoUDeduplicationWithReasons(light.survivors, IOU_DEDUPE)
        containment == applyContainmentDeduplicationWithReasons(iou.survivors, IOU_CONTAINMENT)
        text == applyTextBasedDeduplicationWithReasons(containment.survivors)
    IN StageResult(text.survivors,
                   light.removed \cup iou.removed \cup containment.removed \cup text.removed)

\* applyComprehensiveFiltering, step 14: the final validity filter
finalValidation(elements) ==
  LET Valid(el) == el.dom
  IN SelectSeq(elements, Valid)

\* applyComprehensiveFiltering, catch block: the elements still usable
catchFallback(elements) ==
  LET Usable(el) == el.dom
  IN SelectSeq(elements, Usable)

\* =================================================================== state
VARIABLES
  input,        \* the selectors payload of the COMPREHENSIVE_FILTER messages
  run,          \* the pipeline runs (one per COMPREHENSIVE_FILTER message)
  active,       \* the run that holds the JavaScript thread, 0 when none
  isCollecting, \* content/index.js: let isCollecting
  collecting,   \* handleRunInspect bodies awaiting their collection
  messages,     \* messages delivered to the listener so far
  caches,       \* styleCache (visibility.js) and the _scopeCachedSelector
                \* properties (cacheSelector): the elements that have an entry
  calc          \* the function under study in the specifications of single
                \* functions; NoCalc in the specification of the content script

vars == <<document, input, run, active, isCollecting, collecting, messages, caches, calc>>

NoCaches == [style |-> {}, selector |-> {}]

NoCalc == [op |-> "none"]

RunIds == 1..MaxMessages

\* The stages of applyComprehensiveFiltering in program order
StageNames == <<"resolve", "toplevel", "visibility", "iou", "structural", "prioritize",
                "cluster", "llm", "quality", "confidence", "sort", "finaldedup", "validate">>

\* message.selectors: an array of selector strings, or a value that is not
\* an array (it has a length but no slice method)
Payload(array, items) == [array |-> array, items |-> items]
Payloads ==
  {Payload(TRUE, sel) : sel \in IncreasingSeqs(Selectors, MaxSelectors)}
    \cup {Payload(FALSE, <<>>)}

NoStage == [stage |-> "none", input |-> <<>>, survivors |-> <<>>, removed |-> {}, handed |-> <<>>]

IdleRun ==
  [st |-> "Idle", pc |-> "none", selectors |-> Payload(TRUE, <<>>),
   elements |-> <<>>, prev |-> <<>>, resolved |-> <<>>,
   items |-> <<>>, idx |-> 0, analyzed |-> <<>>, llm |-> <<>>, llmAnalysis |-> <<>>,
   calls |-> <<>>,
   trace |-> <<>>, steps |-> <<>>, last |-> NoStage, threw |-> "none",
   result |-> <<>>, response |-> "none",
   busyAtStart |-> FALSE, stopSeen |-> FALSE,
   id |-> 0, undelivered |-> <<>>, aborted |-> FALSE, rejected |-> FALSE]

Init ==
  /\ document = Dom
  /\ input \in Payloads
  /\ run = [r \in RunIds |-> IdleRun]
  /\ active = 0
  /\ isCollecting = FALSE
  /\ collecting = 0
  /\ messages = 0
  /\ caches = NoCaches
  /\ calc = NoCalc

\* What becomes of the chrome.runtime.sendMessage of one progress event:
\* "delivered"; "failed" (the callback sees chrome.runtime.lastError, the
\* promise resolves); "pending" (the callback is never called); "rejected"
\* (sendMessage throws inside the promise executor, the promise rejects).
\* Every event is delivered unless the study of lossy delivery says otherwise.
sendProgressUpdate(rr, step) ==
  IF calc.op = "delivery" /\ rr.id = calc.run /\ step \in calc.steps
  THEN calc.outcome ELSE "delivered"

\* Variant in which updateProgress awaits the promise of sendProgressUpdate
ProgressAwaited(outcome) == outcome = "rejected"

\* updateProgress drops the promise sendProgressUpdate returns: the call
\* returns normally whatever becomes of the delivery
ProgressThrows(outcome) == FALSE

\* updateProgress(step, message) and the start of a stage
Enter(rr, stage, step) ==
  LET outcome == sendProgressUpdate(rr, step)
  IN [rr EXCEPT !.trace = Append(@, stage), !.steps = Append(@, step),
                !.undelivered = IF outcome = "delivered" THEN @ ELSE Append(@, step),
                !.aborted = ProgressThrows(outcome)]

\* The catch block of applyComprehensiveFiltering and, after it, the rest of
\* handleComprehensiveFilter: the elements of the last completed stage are
\* returned when there are any, otherwise the error is rethrown and the
\* handler answers {success: false}.
Catch(rr, stage) ==
  IF Len(rr.elements) > 0
  THEN [rr EXCEPT !.st = "Complete", !.pc = "done", !.threw = stage,
                  !.result = catchFallback(rr.elements), !.response = "success",
                  !.last = NoStage, !.items = <<>>, !.idx = 0, !.analyzed = <<>>,
                  !.llmAnalysis = <<>>]
  ELSE [rr EXCEPT !.st = "Failed", !.pc = "done", !.threw = stage,
                  !.response = "error", !.last = NoStage,
                  !.items = <<>>, !.idx = 0, !.analyzed = <<>>,
                  !.llmAnalysis = <<>>]

\* A removing stage returned res; ensureMinimumSurvivors gives the list handed on
Removing(rr, stage, res, handed, nextpc) ==
  [rr EXCEPT !.elements = handed, !.prev = handed, !.pc = nextpc,
             !.last = [stage |-> stage, input |-> rr.elements, survivors |-> res.survivors,
                       removed |-> res.removed, handed |-> handed]]

\* ---------------------------------------------------------------- messages
\* The messages a behaviour may hold: MaxMessages, or MaxInspects in the
\* study of the inspection handlers, which records every RUN_INSPECT and
\* STOP_INSPECT message with the sendResponse calls made for it
MaxInspects == 3
MessageBound == IF calc.op = "inspect" THEN MaxInspects ELSE MaxMessages
Heard(call) == IF calc.op = "inspect" THEN [calc EXCEPT !.calls = Append(@, call)] ELSE calc

\* Variant of the listener without the try/catch around handleRunInspect
answersWithoutCatch(how) ==
  CASE how = "busy" -> <<"Already collecting">>
    [] how = "resolved" -> <<"success">>
    [] how = "thrown" -> <<>>

\* The sendResponse calls for one RUN_INSPECT message: by handleRunInspect
\* when it is busy or the collection resolved, by the catch block of the
\* listener when handleRunInspect threw (its finally block ran before)
answers(how) ==
  CASE how = "busy" -> <<"Already collecting">>
    [] how = "resolved" -> <<"success">>
    [] how = "thrown" -> <<"error">>

\* chrome.runtime.onMessage, action COMPREHENSIVE_FILTER: the listener
\* calls handleComprehensiveFilter, which calls applyComprehensiveFiltering.
\* Neither reads a run-in-progress flag.
FilterRequest(r) ==
  /\ active = 0
  /\ messages < MessageBound
  /\ messages' = messages + 1
  /\ run[r].st = "Idle"
  /\ \A q \in RunIds : q < r => run[q].st # "Idle"
  /\ run' = [run EXCEPT ![r] =
               [IdleRun EXCEPT !.st = "Running", !.pc = "resolve", !.selectors = input, !.id = r,
                               !.busyAtStart = \E q \in RunIds : run[q].st = "Running"]]
  /\ active' = r
  /\ UNCHANGED <<document, input, isCollecting, collecting, caches, calc>>

\* action STOP_INSPECT: handleStopInspect
StopInspect ==
  /\ active = 0
  /\ messages < MessageBound
  /\ messages' = messages + 1
  /\ isCollecting' = FALSE
  /\ run' = [r \in RunIds |->
               IF run[r].st = "Running" THEN [run[r] EXCEPT !.stopSeen = TRUE] ELSE run[r]]
  /\ calc' = Heard([action |-> "STOP_INSPECT", pc |-> "done", responses |-> <<"success">>])
  /\ UNCHANGED <<document, input, active, collecting, caches>>

\* action RUN_INSPECT: handleRunInspect up to its await
RunInspect ==
  /\ active = 0
  /\ messages < MessageBound
  /\ messages' = messages + 1
  /\ IF isCollecting
     THEN /\ UNCHANGED <<isCollecting, collecting>>
          /\ calc' = Heard([action |-> "RUN_INSPECT", pc |-> "done",
                            responses |-> answers("busy")])
     ELSE /\ isCollecting' = TRUE /\ collecting' = collecting + 1
          /\ calc' = Heard([action |-> "RUN_INSPECT", pc |-> "awaiting", responses |-> <<>>])
  /\ UNCHANGED <<document, input, run, active, caches>>

\* handleRunInspect after the await: the collection resolved (response, then
\* the finally block) or something in the try block threw (the finally block,
\* then the response of the listener's catch block)
InspectFinish(how) ==
  /\ active = 0
  /\ collecting > 0
  /\ collecting' = collecting - 1
  /\ isCollecting' = FALSE
  /\ IF calc.op = "inspect"
     THEN \E i \in 1..Len(calc.calls) :
            /\ calc.calls[i].pc = "awaiting"
            /\ calc' = [calc EXCEPT !.calls[i] = [@ EXCEPT !.pc = "done",
                                                          !.responses = answers(how)]]
     ELSE UNCHANGED calc
  /\ UNCHANGED <<document, input, run, active, messages, caches>>

\* ------------------------------------------------------------------ stages
Running(r, pc) == active = r /\ run[r].st = "Running" /\ run[r].pc = pc

Frame == UNCHANGED <<document, input, isCollecting, collecting, messages, calc>>

\* The run r leaves the thread when it completes, fails or awaits
Release(rr, r) == IF rr.st = "Running" /\ rr.pc \notin {"embed", "llmwait"} THEN r ELSE 0

\* The cache entries after a stage: isBasicVisible reads every element's
\* style through getCachedComputedStyle; cacheSelector is called for every
\* element the top-level, visibility, structural and quality stages remove
\* and for every element the IoU deduplication compares.
Ids(elements) == {elements[i].id : i \in 1..Len(elements)}
CachesAfter(last) ==
  LET NotKept(el) == ~StructuralKeep(el)
  IN CASE last.stage = "visibility" ->
            [style |-> caches.style \cup Ids(last.input),
             selector |-> caches.selector \cup last.removed]
       [] last.stage \in {"toplevel", "quality"} ->
            [caches EXCEPT !.selector = @ \cup last.removed]
       [] last.stage = "structural" ->
            [caches EXCEPT !.selector = @ \cup Ids(SelectSeq(last.input, NotKept))]
       [] last.stage = "iou" ->
            [caches EXCEPT !.selector = @ \cup Ids(last.input)]
       [] OTHER -> caches

\* The stage of run r has brought it to rr; an exception of updateProgress
\* at the start of the stage would have entered the catch block instead
Step(r, rr) ==
  LET caught == Catch([run[r] EXCEPT !.trace = rr.trace, !.steps = rr.steps,
                                     !.undelivered = rr.undelivered, !.aborted = TRUE],
                      rr.trace[Len(rr.trace)])
      next == IF rr.aborted /\ ~run[r].aborted THEN caught ELSE rr
  IN /\ run' = [run EXCEPT ![r] = next]
     /\ active' = Release(next, r)
     /\ caches' = CachesAfter(next.last)
     /\ Frame

\* Step 1: convertSelectorsToElements.  selectors.slice(0, 5) is a TypeError
\* when the payload is not an array.
Resolve(r) ==
  /\ Running(r, "resolve")
  /\ LET rr == Enter(run[r], "resolve", 1)
         conv == convertSelectorsToElements(rr.selectors.items)
     IN IF ~rr.selectors.array THEN Step(r, Catch(rr, "resolve"))
        ELSE Step(r, [rr EXCEPT !.elements = conv.elements, !.prev = conv.elements,
                                !.resolved = conv.elements, !.pc = "toplevel",
                                !.last = NoStage])

\* Step 2
TopLevelFilter(r) ==
  /\ Running(r, "toplevel")
  /\ LET rr == Enter(run[r], "toplevel", 2)
         res == applyTopLevelFilteringWithReasons(rr.elements)
     IN Step(r, Removing(rr, "toplevel", res,
                         ensureMinimumSurvivors(res.survivors, rr.prev), "visibility"))

\* Step 3
VisibilityFilter(r) ==
  /\ Running(r, "visibility")
  /\ LET rr == Enter(run[r], "visibility", 3)
         res == applyComprehensiveVisibilityFilteringWithReasons(rr.elements)
     IN Step(r, Removing(rr, "visibility", res,
                         ensureMinimumSurvivors(res.survivors, rr.prev), "iou"))

\* Step 4
IoUDedup(r) ==
  /\ Running(r, "iou")
  /\ LET rr == Enter(run[r], "iou", 4)
         res == applyIoUDeduplicationWithReasons(rr.elements, IOU_DEDUPE)
     IN IF res.threw THEN Step(r, Catch(rr, "iou"))
        ELSE Step(r, Removing(rr, "iou", res,
                              ensureMinimumSurvivors(res.survivors, rr.prev), "structural"))

\* Variant of step 5 that hands on to the cluster stage, skipping the reorder
StructuralFilterSkipsReorder(r) ==
  /\ Running(r, "structural")
  /\ LET rr == Enter(run[r], "structural", 5)
         res == filterStructuralElementsWithReasons(rr.elements)
     IN Step(r, Removing(rr, "structural", res,
                         ensureMinimumSurvivors(res.survivors, rr.prev), "cluster"))

\* Step 5
StructuralFilter(r) ==
  /\ Running(r, "structural")
  /\ LET rr == Enter(run[r], "structural", 5)
         res == filterStructuralElementsWithReasons(rr.elements)
     IN Step(r, Removing(rr, "structural", res,
                         ensureMinimumSurvivors(res.survivors, rr.prev), "prioritize"))

\* Step 6: reorder only; prev is not updated
Prioritize(r) ==
  /\ Running(r, "prioritize")
  /\ LET rr == Enter(run[r], "prioritize", 6)
     IN Step(r, [rr EXCEPT !.elements = prioritizeInteractiveElements(rr.elements),
                           !.pc = "cluster", !.last = NoStage])

\* Step 7, clusterDeduplicateElements up to the first await embedText.  With
\* no items there is nothing to await and the stage returns the empty list.
ClusterStart(r) ==
  /\ Running(r, "cluster")
  /\ LET rr == Enter(run[r], "cluster", 7)
         sigs == [i \in 1..Len(rr.elements) |-> extractElementSignature(rr.elements[i])]
     IN IF Len(sigs) = 0
        THEN Step(r, [rr EXCEPT !.items = <<>>, !.elements = <<>>, !.prev = <<>>, !.pc = "llm",
                                !.last = [stage |-> "cluster", input |-> <<>>, survivors |-> <<>>,
                                          removed |-> {}, handed |-> <<>>]])
        ELSE Step(r, [rr EXCEPT !.items = sigs, !.idx = 1, !.pc = "embed", !.last = NoStage])

Awaiting(r, pc) == active = 0 /\ run[r].st = "Running" /\ run[r].pc = pc

\* await embedText(item.text) resolves: the vector is stored; after the last
\* item the clusters are built and collapsed to their first members.
EmbedResolve(r) ==
  /\ Awaiting(r, "embed")
  /\ LET rr == run[r]
         item == rr.items[rr.idx]
         withVec == [el |-> item.el, text |-> item.text, href |-> item.href,
                     icon |-> item.icon, vec |-> embedText(item.text)]
         items == [rr.items EXCEPT ![rr.idx] = withVec]
         deduped == clusterCollapse(items)
     IN IF rr.idx < Len(rr.items)
        THEN Step(r, [rr EXCEPT !.items = items, !.idx = @ + 1])
        ELSE Step(r, [rr EXCEPT !.items = items, !.elements = deduped, !.prev = deduped,
                                !.pc = "llm",
                                !.last = [stage |-> "cluster", input |-> rr.elements,
                                          survivors |-> deduped, removed |-> {},
                                          handed |-> deduped]])

\* await embedText(item.text) rejects (the encoder cannot be loaded or
\* fails): nothing in clusterDeduplicateElements catches it.
EmbedReject(r) ==
  /\ Awaiting(r, "embed")
  /\ Step(r, [Catch(run[r], "cluster") EXCEPT !.rejected = TRUE])

\* Math.ceil(n / batchSize) and startStep + Math.round(i * stepIncrement)
Batches(n) == (n + batchSize - 1) \div batchSize
\* Variant of the batch step that advances by a fixed amount per batch
BatchStepFixedIncrement(i, batches) == 10 + 3 * i
BatchStep(i, batches) == 10 + ((2 * i * (20 - 10) + batches) \div (2 * batches))
\* Variant of the slice that takes the element at batchEnd as well
BatchOfThroughEnd(elements, i) ==
  SubSeq(elements, i * batchSize + 1, Min(i * batchSize + batchSize + 1, Len(elements)))

BatchOf(elements, i) ==
  SubSeq(elements, i * batchSize + 1, Min(i * batchSize + batchSize, Len(elements)))

\* applyLLMAnalysis, processedResults: for each result of the service, in
\* order, the original element of the batch at the same index
processedResults(batch, batchResults) == [k \in 1..Len(batchResults) |-> batch[k]]

\* LLMService.getDefaultAnalysis: what parseResponse gives for a reply of the
\* service that has no usable choice for the element
getDefaultAnalysis == [elementType |-> "container", confidence |-> 10]

\* classes.includes(word) on the joined, lower-cased class list
classesInclude(e, word) == word \in Node(e).attrs.classes

\* The rules without the tag, role and class tests
ruleBasedAnalysisTextOnly(e) ==
  IF Len(innerTextTrimmed(e)) > 0 /\ Len(innerTextTrimmed(e)) < 200
  THEN [elementType |-> "text", confidence |-> 60]
  ELSE [elementType |-> "container", confidence |-> 50]

\* LLMService.ruleBasedAnalysis (confidence in hundredths)
ruleBasedAnalysis(e) ==
  LET tag == Node(e).tag
      role == Node(e).attrs.role
      text == innerTextTrimmed(e)
  IN IF tag = "button" \/ role = "button" \/ classesInclude(e, "btn")
          \/ classesInclude(e, "button")
     THEN [elementType |-> "button", confidence |-> 90]
     ELSE IF tag \in {"input", "textarea", "select"}
     THEN [elementType |-> "input", confidence |-> 90]
     ELSE IF tag = "a" \/ role = "link" \/ classesInclude(e, "link")
     THEN [elementType |-> "link", confidence |-> 80]
     ELSE IF tag = "nav" \/ role = "navigation" \/ classesInclude(e, "nav")
     THEN [elementType |-> "navigation", confidence |-> 80]
     ELSE IF tag = "header" \/ role = "banner" \/ classesInclude(e, "header")
     THEN [elementType |-> "header", confidence |-> 80]
     ELSE IF tag = "footer" \/ role = "contentinfo" \/ classesInclude(e, "footer")
     THEN [elementType |-> "footer", confidence |-> 80]
     ELSE IF Len(text) > 0 /\ Len(text) < 200
     THEN [elementType |-> "text", confidence |-> 60]
     ELSE IF tag = "form" \/ classesInclude(e, "form")
     THEN [elementType |-> "form", confidence |-> 70]
     ELSE [elementType |-> "container", confidence |-> 50]

\* LLM_CONFIG.performance.retryAttempts
retryAttempts == 3

\* The calls of analyzeBatch that analyzeElements makes for one batch before
\* it answers: one, inside the try whose catch is the fallback
analyzeBatchCalls(how) == 1

\* LLMService.analyzeElements(batch): the analysis of each element of the
\* batch, from the service ("service") or, when the call to the service
\* throws or no key is configured, from the rules ("fallback")
analyzeElements(batch, how) ==
  [k \in 1..Len(batch) |->
     IF how = "fallback" THEN ruleBasedAnalysis(batch[k]) ELSE getDefaultAnalysis]

\* Step 8, applyLLMAnalysis up to the first await analyzeElements(batch)
LLMStart(r) ==
  /\ Running(r, "llm")
  /\ LET rr == Enter(run[r], "llm", 9)
         batches == Batches(Len(rr.elements))
     IN IF batches = 0
        THEN Step(r, [rr EXCEPT !.analyzed = <<>>, !.llmAnalysis = <<>>,
                                !.elements = <<>>, !.prev = <<>>,
                                !.pc = "quality", !.last = NoStage])
        ELSE Step(r, [rr EXCEPT !.analyzed = <<>>, !.llmAnalysis = <<>>,
                                !.idx = 0, !.pc = "llmwait",
                                !.steps = Append(@, BatchStep(0, batches)),
                                !.last = NoStage])

\* await analyzeElements(batch) resolves, with the answer of the service or
\* with the rule-based fallback (LLMService catches its own failures); the
\* analysis is attached to the original elements.
LLMBatchDone(r, how) ==
  /\ Awaiting(r, "llmwait")
  /\ LET rr == run[r]
         batches == Batches(Len(rr.elements))
         batch == BatchOf(rr.elements, rr.idx)
         analyzed == rr.analyzed \o processedResults(batch, analyzeElements(batch, how))
         llmAnalysis == rr.llmAnalysis \o analyzeElements(batch, how)
     IN IF rr.idx + 1 < batches
        THEN Step(r, [rr EXCEPT !.analyzed = analyzed, !.llmAnalysis = llmAnalysis,
                                !.llm = Append(@, how), !.idx = @ + 1,
                                !.calls = Append(@, analyzeBatchCalls(how)),
                                !.steps = Append(@, BatchStep(rr.idx + 1, batches))])
        ELSE Step(r, [rr EXCEPT !.analyzed = analyzed, !.llmAnalysis = llmAnalysis,
                                !.llm = Append(@, how),
                                !.calls = Append(@, analyzeBatchCalls(how)),
                                !.elements = analyzed, !.prev = analyzed, !.pc = "quality"])

\* Step 10
QualityFilter(r) ==
  /\ Running(r, "quality")
  /\ LET rr == Enter(run[r], "quality", 21)
         res == applyFinalQualityFilteringWithReasons(rr.elements)
     IN Step(r, Removing(rr, "quality", res,
                         ensureMinimumSurvivors(res.survivors, rr.prev), "confidence"))

\* Step 11
ConfidenceScoring(r) ==
  /\ Running(r, "confidence")
  /\ LET rr == Enter(run[r], "confidence", 22)
         res == applyConfidenceScoring(rr.elements)
     IN IF res.threw THEN Step(r, Catch(rr, "confidence"))
        ELSE Step(r, [rr EXCEPT !.elements = res.survivors, !.prev = res.survivors,
                                !.pc = "sort", !.last = NoStage])

\* Step 12
SortByRelevance(r) ==
  /\ Running(r, "sort")
  /\ LET rr == Enter(run[r], "sort", 23)
         res == sortByRelevance(rr.elements)
     IN IF res.threw THEN Step(r, Catch(rr, "sort"))
        ELSE Step(r, [rr EXCEPT !.elements = res.survivors, !.prev = res.survivors,
                                !.pc = "finaldedup", !.last = NoStage])

\* Step 13: no ensureMinimumSurvivors after the final deduplication
FinalDedup(r) ==
  /\ Running(r, "finaldedup")
  /\ LET rr == Enter(run[r], "finaldedup", 24)
         res == applyFinalDeduplicationWithReasons(rr.elements)
     IN IF res.threw THEN Step(r, Catch(rr, "finaldedup"))
        ELSE Step(r, Removing(rr, "finaldedup", res, res.survivors, "validate"))

\* Step 14: the validity filter, the return, and the rest of
\* handleComprehensiveFilter (sendResponse({success: true, filtered}))
Validate(r) ==
  /\ Running(r, "validate")
  /\ LET rr == Enter(run[r], "validate", 25)
         finalElements == finalValidation(rr.elements)
     IN Step(r, [rr EXCEPT !.st = "Complete", !.pc = "done", !.result = finalElements,
                           !.response = "success",
                           !.items = <<>>, !.idx = 0, !.analyzed = <<>>,
                           !.llmAnalysis = <<>>,
                           !.last = [stage |-> "validate", input |-> rr.elements,
                                     survivors |-> finalElements, removed |-> {},
                                     handed |-> finalElements]])

Next ==
  \/ \E r \in RunIds : FilterRequest(r)
  \/ StopInspect
  \/ RunInspect
  \/ \E how \in {"resolved", "thrown"} : InspectFinish(how)
  \/ \E r \in RunIds : Resolve(r)
  \/ \E r \in RunIds : TopLevelFilter(r)
  \/ \E r \in RunIds : VisibilityFilter(r)
  \/ \E r \in RunIds : IoUDedup(r)
  \/ \E r \in RunIds : StructuralFilter(r)
  \/ \E r \in RunIds : Prioritize(r)
  \/ \E r \in RunIds : ClusterStart(r)
  \/ \E r \in RunIds : EmbedResolve(r)
  \/ \E r \in RunIds : EmbedReject(r)
  \/ \E r \in RunIds : LLMStart(r)
  \/ \E r \in RunIds, how \in {"service", "fallback"} : LLMBatchDone(r, how)
  \/ \E r \in RunIds : QualityFilter(r)
  \/ \E r \in RunIds : ConfidenceScoring(r)
  \/ \E r \in RunIds : SortByRelevance(r)
  \/ \E r \in RunIds : FinalDedup(r)
  \/ \E r \in RunIds : Validate(r)

Spec == Init /\ [][Next]_vars

\* ===================================== the inspection handlers, recorded
\* The content script with every RUN_INSPECT and STOP_INSPECT message
\* recorded, next to COMPREHENSIVE_FILTER messages with short payloads
InspectInit ==
  /\ document = Dom
  /\ input \in {Payload(FALSE, <<>>), Payload(TRUE, <<>>), Payload(TRUE, <<1>>),
                Payload(TRUE, <<NotFound>>)}
  /\ run = [r \in RunIds |-> IdleRun]
  /\ active = 0
  /\ isCollecting = FALSE
  /\ collecting = 0
  /\ messages = 0
  /\ caches = NoCaches
  /\ calc = [op |-> "inspect", calls |-> <<>>]

InspectSpec == InspectInit /\ [][Next]_vars

\* ============================================ progress of one run, alone
\* The updateProgress calls of applyComprehensiveFiltering, stage by stage,
\* for a run that hands n elements to applyLLMAnalysis and may leave through
\* the catch block at any point (the catch block emits nothing).
StageSteps == <<1, 2, 3, 4, 5, 6, 7, 9, 21, 22, 23, 24, 25>>

Idle ==
  /\ document = Pages
  /\ input = Payload(TRUE, <<>>)
  /\ run = [r \in RunIds |-> IdleRun]
  /\ active = 0
  /\ isCollecting = FALSE
  /\ collecting = 0
  /\ messages = 0
  /\ caches = NoCaches

StaysIdle == UNCHANGED <<document, input, run, active, isCollecting, collecting, messages, caches>>

ProgressInit ==
  /\ Idle
  /\ \E n \in 0..MaxClassified :
       calc = [op |-> "progress", n |-> n, at |-> 0, i |-> 0, steps |-> <<>>, ended |-> "no"]

\* updateProgress(step, ...) at the start of the next stage
ProgressStage ==
  /\ calc.op = "progress" /\ calc.ended = "no"
  /\ calc.at < Len(StageNames)
  /\ calc.at > 0 /\ StageNames[calc.at] = "llm" => calc.i = Batches(calc.n)
  /\ calc' = [calc EXCEPT !.at = @ + 1, !.steps = Append(@, StageSteps[calc.at + 1])]
  /\ StaysIdle

\* updateProgress(currentStep, ...) of the next batch in applyLLMAnalysis
ProgressBatch ==
  /\ calc.op = "progress" /\ calc.ended = "no"
  /\ calc.at > 0 /\ StageNames[calc.at] = "llm"
  /\ calc.i < Batches(calc.n)
  /\ calc' = [calc EXCEPT !.i = @ + 1,
                          !.steps = Append(@, BatchStep(calc.i, Batches(calc.n)))]
  /\ StaysIdle

\* the run leaves: return after the last stage, or the catch block
ProgressEnd ==
  /\ calc.op = "progress" /\ calc.ended = "no"
  /\ calc.at > 0
  /\ calc' = [calc EXCEPT !.ended = IF calc.at = Len(StageNames) THEN "returned" ELSE "caught"]
  /\ StaysIdle

ProgressNext == ProgressStage \/ ProgressBatch \/ ProgressEnd

ProgressSpec == ProgressInit /\ [][ProgressNext]_vars

\* ================================== applyLLMAnalysis, batch after batch
\* length of the element lists in the study of the classification batches
MaxBatched == 11

\* applyLLMAnalysis on a list of DOM Elements (the lists of a run hold
\* nothing else): buttons and plain divs in any order
ClassifyInit ==
  /\ Idle
  /\ \E n \in 0..MaxBatched :
       \E elements \in [1..n -> {Element(1), Element(4)}] :
         calc = [op |-> "classify", elements |-> elements, i |-> 0, batches |-> <<>>,
                 llm |-> <<>>, analyzed |-> <<>>, returned |-> FALSE, output |-> <<>>]

\* One turn of the loop: the batch is sliced, analyzeElements answers from
\* the service or from the rules, the results are pushed
ClassifyBatch(how) ==
  /\ calc.op = "classify" /\ ~calc.returned
  /\ Len(calc.elements) > 0 => calc.elements[1].dom
  /\ calc.i < Batches(Len(calc.elements))
  /\ LET batch == BatchOf(calc.elements, calc.i)
     IN calc' = [calc EXCEPT !.i = @ + 1, !.batches = Append(@, batch),
                             !.llm = Append(@, how),
                             !.analyzed = @ \o processedResults(batch, analyzeElements(batch, how))]
  /\ StaysIdle

\* The type guard on the first element returns [] at once; otherwise the
\* function returns analyzed after the last batch
ClassifyReturn ==
  /\ calc.op = "classify" /\ ~calc.returned
  /\ IF Len(calc.elements) > 0 /\ ~calc.elements[1].dom
     THEN calc' = [calc EXCEPT !.returned = TRUE, !.output = <<>>]
     ELSE /\ calc.i = Batches(Len(calc.elements))
          /\ calc' = [calc EXCEPT !.returned = TRUE, !.output = calc.analyzed]
  /\ StaysIdle

ClassifySpec ==
  ClassifyInit /\ [][(\E how \in {"service", "fallback"} : ClassifyBatch(how)) \/ ClassifyReturn]_vars

\* ================================== two runs, one with lossy progress events
\* Progress events whose delivery does not succeed, in the study of lossy
\* delivery: one event of a stage, or all of them
LostSteps == {{9}, {21}, Range(StageSteps)}

DeliveryInit ==
  /\ document = Dom
  /\ input \in {p \in Payloads : Len(p.items) <= 2}
  /\ run = [r \in RunIds |-> IdleRun]
  /\ active = 0
  /\ isCollecting = FALSE
  /\ collecting = 0
  /\ messages = 0
  /\ caches = NoCaches
  /\ \E outcome \in {"failed", "pending", "rejected"}, steps \in LostSteps :
       calc = [op |-> "delivery", run |-> 2, outcome |-> outcome, steps |-> steps]

DeliverySpec == DeliveryInit /\ [][Next]_vars

\* ===================== convertSelectorsToElements, one selector at a time
\* length of the selector lists in the study of the conversion
MaxPaths == 3

\* a string that document.querySelector rejects with a SyntaxError
InvalidSelector == NotFound + 1
\* an entry of the list that is not a string
NonString == NotFound + 2

PathLists ==
  UNION {[1..k -> {1, 2, NotFound, InvalidSelector, NonString}] : k \in 0..MaxPaths}

\* document.querySelector(selector)
querySelector(selector) ==
  IF selector \in DomIds THEN "element"
  ELSE IF selector = NotFound THEN "null" ELSE "throws"

\* One reason for every selector that gives no element
removalReasonUnspecific(selector) == "Invalid or not found"

\* The reason convertSelectorsToElements records for a selector that gives no
\* element
removalReason(selector) ==
  IF selector = NonString THEN "Invalid selector type"
  ELSE IF querySelector(selector) = "null" THEN "Element not found in DOM"
  ELSE "Invalid selector: SyntaxError"

ResolveInit ==
  /\ Idle
  /\ \E selectors \in PathLists :
       calc = [op |-> "resolve", selectors |-> selectors, i |-> 0, elements |-> <<>>,
               removedSelectors |-> <<>>, removalReasons |-> {}, queries |-> <<>>,
               returned |-> FALSE]

\* One turn of the loop over the selectors; queries lists the positions whose
\* selector was handed to document.querySelector
ResolveOne ==
  /\ calc.op = "resolve" /\ ~calc.returned
  /\ calc.i < Len(calc.selectors)
  /\ LET k == calc.i + 1
         selector == calc.selectors[k]
         set == {p \in calc.removalReasons : p[1] # selector}
                  \cup {<<selector, removalReason(selector)>>}
     IN IF selector = NonString
        THEN calc' = [calc EXCEPT !.i = k, !.removedSelectors = Append(@, selector),
                                  !.removalReasons = set]
        ELSE IF querySelector(selector) = "element"
        THEN calc' = [calc EXCEPT !.i = k, !.queries = Append(@, k),
                                  !.elements = Append(@, Element(selector))]
        ELSE calc' = [calc EXCEPT !.i = k, !.queries = Append(@, k),
                                  !.removedSelectors = Append(@, selector),
                                  !.removalReasons = set]
  /\ StaysIdle

\* After the loop: the failed selectors are shown as objects (the overlay
\* queries no object) and the three collections are returned
ResolveReturn ==
  /\ calc.op = "resolve" /\ ~calc.returned
  /\ calc.i = Len(calc.selectors)
  /\ calc' = [calc EXCEPT !.returned = TRUE]
  /\ StaysIdle

ResolveNext == ResolveOne \/ ResolveReturn

ResolveSpec == ResolveInit /\ [][ResolveNext]_vars

\* ============ applyTopLevelFiltering (filter/pipeline.js), pass after pass
\* length of the element lists in the study of the top-level passes
MaxTopLevel == 3

\* applyTopLevelFiltering: const maxIterations
maxIterations == 5

\* previous?.length while previous is null
NoLength == 0 - 1

\* SpatialFilter.filterTopLevelElements: one pass
filterTopLevelElements(elements) ==
  LET n == Len(elements)
      rectOf(i) == getBoundingClientRect(elements[i])
      Container(i) == {j \in 1..n : /\ i # j
                                    /\ Exceeds(calculateIoU(rectOf(i), rectOf(j)), IOU_CONTAINMENT)
                                    /\ calculateArea(rectOf(i)) < calculateArea(rectOf(j))}
  IN SubseqAt(elements, {i \in 1..n : Container(i) = {}})

\* A loop that makes one pass only
OnePassOnly(currentLength, previousLength, iterations) == iterations < 1

\* The condition of the while loop of applyTopLevelFiltering
AnotherPass(currentLength, previousLength, iterations) ==
  currentLength # previousLength /\ iterations < maxIterations

TopLevelInit ==
  /\ Idle
  /\ \E k \in 0..MaxTopLevel : \E ids \in [1..k -> {1, 4, 7, 8, 9}] :
       calc = [op |-> "toplevel", elements |-> [i \in 1..k |-> Element(ids[i])],
               current |-> [i \in 1..k |-> Element(ids[i])], previousLength |-> NoLength,
               iterations |-> 0, passes |-> <<>>, returned |-> FALSE]

\* One turn of the while loop
TopLevelPass ==
  /\ calc.op = "toplevel" /\ ~calc.returned
  /\ AnotherPass(Len(calc.current), calc.previousLength, calc.iterations)
  /\ LET out == filterTopLevelElements(calc.current)
     IN calc' = [calc EXCEPT !.previousLength = Len(calc.current), !.current = out,
                             !.iterations = @ + 1,
                             !.passes = Append(@, [input |-> calc.current, output |-> out])]
  /\ StaysIdle

\* The loop ends: return current
TopLevelReturn ==
  /\ calc.op = "toplevel" /\ ~calc.returned
  /\ ~AnotherPass(Len(calc.current), calc.previousLength, calc.iterations)
  /\ calc' = [calc EXCEPT !.returned = TRUE]
  /\ StaysIdle

TopLevelNext == TopLevelPass \/ TopLevelReturn

TopLevelSpec == TopLevelInit /\ [][TopLevelNext]_vars

\* ========================= single list functions, applied once and again
\* length of the element lists in the study of the list functions
MaxList == 3
\* The longest list handed to sortByRelevance
MaxRanked == 4

\* FilterPipeline.clusterDeduplicateElements with every embedding resolved
clusterDeduplicateElements(elements) ==
  LET sig(i) == extractElementSignature(elements[i])
      items == [i \in 1..Len(elements) |->
                  [el |-> sig(i).el, text |-> sig(i).text, href |-> sig(i).href,
                   icon |-> sig(i).icon, vec |-> embedText(sig(i).text)]]
  IN clusterCollapse(items)

\* The list a function of the pipeline returns for a list of DOM elements
ListFunction(fn, elements) ==
  CASE fn = "toplevel" -> applyTopLevelFilteringWithReasons(elements).survivors
    [] fn = "light" -> applyLightDeduplicationWithReasons(elements).survivors
    [] fn = "iou" -> applyIoUDeduplicationWithReasons(elements, IOU_DEDUPE).survivors
    [] fn = "containment" ->
         applyContainmentDeduplicationWithReasons(elements, IOU_CONTAINMENT).survivors
    [] fn = "text" -> applyTextBasedDeduplicationWithReasons(elements).survivors
    [] fn = "cluster" -> clusterDeduplicateElements(elements)
    [] fn = "final" -> applyFinalDeduplicationWithReasons(elements).survivors
    [] fn = "visibility" ->
         applyComprehensiveVisibilityFilteringWithReasons(elements).survivors
    [] fn = "quality" -> applyFinalQualityFilteringWithReasons(elements).survivors
    [] fn = "prioritize" -> prioritizeInteractiveElements(elements)
    [] fn \in {"sort", "sortscored"} -> sortByRelevance(elements).survivors

\* The candidates a list handed to the function may hold: elements of the two
\* pages; for the visibility stage also the detached element, a plain object
\* (no getBoundingClientRect) and null (cacheSelector gives "unknown", key 0);
\* for the quality filter also the navigation landmark and the element with a
\* data-testid attribute.
\* sortByRelevance is given elements ("sort") or the scored copies that
\* applyConfidenceScoring returns ("sortscored").
ListCandidates(fn) ==
  CASE fn = "sort" -> {Element(id) : id \in {2, 3, 7, 17, 18, Page2Id(6), Page2Id(9)}}
    [] fn = "sortscored" ->
         {[Element(id) EXCEPT !.dom = FALSE, !.confidence = calculateConfidence(Element(id))] :
            id \in {2, 3, 7, Page2Id(6), Page2Id(9)}}
    [] OTHER ->
         {Element(id) : id \in {2, 3, 7, 8} \cup {Page2Id(k) : k \in 1..7}}
           \cup (IF fn = "visibility"
                  THEN {Element(Page2Id(8)), [Element(2) EXCEPT !.dom = FALSE],
                        [Element(0) EXCEPT !.dom = FALSE]}
                  ELSE {})
           \cup (IF fn = "quality" THEN {Element(9), Element(Page2Id(10))} ELSE {})

ListInit ==
  /\ Idle
  /\ \E fn \in {"toplevel", "light", "iou", "containment", "text", "cluster", "final",
                 "visibility", "quality", "prioritize", "sort", "sortscored"} :
       \E k \in 0..(IF fn \in {"sort", "sortscored"} THEN MaxRanked ELSE MaxList) :
       \E elements \in [1..k -> ListCandidates(fn)] :
         calc = [op |-> "list", fn |-> fn, elements |-> elements, outputs |-> <<>>]

\* The function is applied to the list, and then to what it returned
ListApply ==
  /\ calc.op = "list" /\ Len(calc.outputs) = 0
  /\ calc' = [calc EXCEPT !.outputs = <<ListFunction(calc.fn, calc.elements)>>]
  /\ StaysIdle

ListApplyAgain ==
  /\ calc.op = "list" /\ Len(calc.outputs) = 1
  /\ calc' = [calc EXCEPT !.outputs = Append(@, ListFunction(calc.fn, calc.outputs[1]))]
  /\ StaysIdle

ListNext == ListApply \/ ListApplyAgain

ListSpec == ListInit /\ [][ListNext]_vars

\* ------------------------------------------------- the geometry of two boxes
\* The functions of the geometry module applied to every pair of boxes with
\* corner and sides in 0..MaxBox (a side of 0: a box without area).
MaxBox == 2

BoxInit ==
  /\ Idle
  /\ \E a, b \in [x : 0..MaxBox, y : 0..MaxBox, width : 0..MaxBox, height : 0..MaxBox] :
       calc = [op |-> "box", a |-> a, b |-> b, outputs |-> <<>>]

BoxApply ==
  /\ calc.op = "box" /\ Len(calc.outputs) = 0
  /\ calc' = [calc EXCEPT !.outputs = <<[iou |-> calculateIoU(calc.a, calc.b),
                                         iouSelf |-> calculateIoU(calc.a, calc.a),
                                         containment |-> calculateContainment(calc.a, calc.b)]>>]
  /\ StaysIdle

BoxNext == BoxApply

BoxSpec == BoxInit /\ [][BoxNext]_vars

\* ---------------------------------------- the geometry in Number arithmetic
\* The coordinates of a DOMRect are JavaScript Numbers (IEEE 754 binary64).
\* A non-negative finite Number is the set of the exponents of its 1 bits
\* (0 is {}, 1 is {0}, 3 is {0, 1}, 0.5 is {-1}).
\* a < b
Less(A, B) ==
  LET D == (A \ B) \cup (B \ A)
  IN A # B /\ (CHOOSE i \in D : \A j \in D : j <= i) \in B

\* a + b, a - b (for a >= b) and a * b: the exact result rounded to 53
\* significant bits, ties to even.  A bit of the exact sum is the exclusive
\* or of the two bits and the carry into it; a carry comes from a position
\* where both have a 1 through positions where at least one has; a borrow
\* comes from a position where only B has a 1 through positions where A has
\* no 1 that B lacks.
NumberOp(op, a, b) ==
  LET SignificandBits == 53
      MaxBit(S) == CHOOSE i \in S : \A j \in S : j <= i
      MinBit(S) == CHOOSE i \in S : \A j \in S : i <= j
      Sum(A, B) ==
        LET U == A \cup B
            Carry(i) == \E j \in A \cap B : j < i /\ \A h \in (j + 1)..(i - 1) : h \in U
        IN {i \in U \cup {j + 1 : j \in U} : ((i \in A) # (i \in B)) # Carry(i)}
      Difference(A, B) ==
        LET Borrow(i) ==
              \E j \in B \ A : j < i /\ \A h \in (j + 1)..(i - 1) : h \notin A \/ h \in B
        IN IF B = {} THEN A
           ELSE {i \in A \cup MinBit(B)..MaxBit(A) : ((i \in A) # (i \in B)) # Borrow(i)}
      RECURSIVE Product(_, _)
      Product(A, B) ==
        IF B = {} THEN {}
        ELSE LET k == MaxBit(B) IN Sum(Product(A, B \ {k}), {i + k : i \in A})
      Round(S) ==
        IF S = {} THEN {}
        ELSE LET lsb == MaxBit(S) - (SignificandBits - 1)
                 kept == {i \in S : i >= lsb}
                 half == (lsb - 1) \in S
                 sticky == \E i \in S : i < lsb - 1
             IN IF half /\ (sticky \/ lsb \in S) THEN Sum(kept, {lsb}) ELSE kept
  IN CASE op = "+" -> Round(Sum(a, b))
       [] op = "-" -> Round(Difference(a, b))
       [] op = "*" -> Round(Product(a, b))

\* geometry.js calculateIntersection and calculateContainment on Numbers; the
\* quotient intersection / areaA is kept as the pair (a correctly rounded
\* quotient is > 1 exactly when the numerator is greater than the denominator)
calculateIntersectionOfNumbers(rectA, rectB) ==
  LET mathMax(a, b) == IF Less(a, b) THEN b ELSE a
      mathMin(a, b) == IF Less(b, a) THEN b ELSE a
      left == mathMax(rectA.x, rectB.x)
      top == mathMax(rectA.y, rectB.y)
      right == mathMin(NumberOp("+", rectA.x, rectA.width), NumberOp("+", rectB.x, rectB.width))
      bottom == mathMin(NumberOp("+", rectA.y, rectA.height), NumberOp("+", rectB.y, rectB.height))
  IN IF ~Less(left, right) \/ ~Less(top, bottom) THEN {}
     ELSE NumberOp("*", NumberOp("-", right, left), NumberOp("-", bottom, top))

calculateContainmentOfNumbers(rectA, rectB) ==
  LET intersection == calculateIntersectionOfNumbers(rectA, rectB)
      areaA == NumberOp("*", rectA.width, rectA.height)
  IN IF Less({}, areaA) THEN Ratio(intersection, areaA) ELSE Ratio({}, {0})

\* The Numbers 0, 1 and 0.1 * 2^k for k in 0..MaxScale (0.1, 0.2, ...);
\* the Number 0.1 is 0x1.999999999999ap-4
MaxScale == 1
Numbers ==
  LET Tenth == {0 - 4 - 4 * k : k \in 0..12} \cup {0 - 5 - 4 * k : k \in 0..12} \cup {0 - 55}
  IN {{}, {0}} \cup {{i + k : i \in Tenth} : k \in 0..MaxScale}

\* Every pair of boxes at y = 0 with left edge and sides among the Numbers
NumberInit ==
  /\ Idle
  /\ \E a, b \in [x : Numbers, y : {{}}, width : Numbers, height : Numbers] :
       calc = [op |-> "numbers", a |-> a, b |-> b, outputs |-> <<>>]

NumberApply ==
  /\ calc.op = "numbers" /\ Len(calc.outputs) = 0
  /\ calc' = [calc EXCEPT !.outputs = <<[containment |-> calculateContainmentOfNumbers(calc.a, calc.b)]>>]
  /\ StaysIdle

NumberSpec == NumberInit /\ [][NumberApply]_vars

\* ================================================================== claims
Runs(st) == {r \in RunIds : run[r].st = st}
Done(r) == run[r].pc = "done"

\* C1: at most one pipeline run is in the Running state at any time, under
\* every interleaving of COMPREHENSIVE_FILTER messages with the suspensions
\* of a run at its awaited embedding and classification calls.
C1_AtMostOneRunning == Cardinality(Runs("Running")) <= 1

\* C2: a start request that arrives while a run is Running is answered with
\* a busy error and executes no stage (it is neither started nor queued).
C2_BusyStartRejected ==
  \A r \in RunIds :
    run[r].busyAtStart => run[r].response = "busy" /\ run[r].trace = <<>>

\* C3: once STOP_INSPECT has been handled during a run, the run enters no
\* further stage: its list of entered stages does not grow any more.
C3_StopEntersNoFurtherStage ==
  [][\A r \in RunIds :
       (run[r].stopSeen /\ run[r].st = "Running") => run'[r].trace = run[r].trace]_vars

\* C4: a run in which a stage threw still executes every stage of the
\* sequence (the failure is absorbed at the boundary of the failing stage).
C4_FailedStageIsSkippedOnly ==
  \A r \in RunIds : (Done(r) /\ run[r].threw # "none") => run[r].trace = StageNames

RemovingStages ==
  {"toplevel", "visibility", "iou", "structural", "cluster", "quality", "finaldedup",
   "validate"}

\* C6: after every removing stage the list handed to the next stage has at
\* least min(3, length of the stage's input) elements.
C6_MinimumSurvivorsHanded ==
  \A r \in RunIds :
    run[r].last.stage \in RemovingStages =>
      Len(run[r].last.handed) >= Min(MIN_SURVIVORS_PER_STAGE, Len(run[r].last.input))

\* C7: in the result of every removing stage each element of the stage's
\* input is either in the survivor list or, under its own key, in the
\* removed-reason mapping: not in both and not in neither.
C7_SurvivorOrRemoved ==
  \A r \in RunIds :
    run[r].last.stage \in RemovingStages =>
      \A i \in 1..Len(run[r].last.input) :
        LET el == run[r].last.input[i]
        IN Includes(run[r].last.survivors, el) # (cacheSelector(el) \in run[r].last.removed)

IsPrefix(s, t) == Len(s) <= Len(t) /\ s = SubSeq(t, 1, Len(s))

\* C8: the stages a run has entered are always an initial part of the
\* sequence resolve, top-level, visibility, IoU, structural, reorder,
\* cluster, classification, quality, confidence, ranking, final dedup,
\* validity (so they are entered in that order, one after the other, none
\* twice), and a run that returns without a failure has entered all of them.
C8_StageOrder ==
  \A r \in RunIds :
    /\ IsPrefix(run[r].trace, StageNames)
    /\ (Done(r) /\ run[r].threw = "none") => run[r].trace = StageNames

\* A run has gone through the whole sequence and returned
C8_Witness ==
  \E r \in RunIds : Done(r) /\ run[r].threw = "none" /\ run[r].trace = StageNames

Original(r, el) == el.dom /\ Includes(run[r].resolved, el)
AllOriginal(r, elements) == \A i \in 1..Len(elements) : Original(r, elements[i])

\* C9: every element in the output of a stage and in the final result is
\* one of the elements created at resolution, never a copy or a new one.
C9_NoCopies ==
  \A r \in RunIds :
    /\ AllOriginal(r, run[r].elements)
    /\ AllOriginal(r, run[r].last.survivors)
    /\ AllOriginal(r, run[r].last.handed)
    /\ AllOriginal(r, run[r].result)

\* A run whose elements were classified and reached confidence scoring
\* has returned a result
C9_Witness ==
  \E r \in RunIds :
    /\ run[r].st = "Complete"
    /\ Len(run[r].llm) > 0
    /\ "confidence" \in Range(run[r].trace)
    /\ Len(run[r].result) > 0

\* C10: a run that returns without error after at least one selector
\* resolved returns a non-empty list.
C10_NonEmptyResult ==
  \A r \in RunIds :
    (run[r].st = "Complete" /\ Len(run[r].resolved) > 0) => Len(run[r].result) > 0

\* A run returned fewer elements than it resolved, but not none
C10_Witness ==
  \E r \in RunIds :
    /\ run[r].st = "Complete"
    /\ Len(run[r].result) > 0
    /\ Len(run[r].result) < Len(run[r].resolved)

NonDecreasing(steps) == \A i, j \in 1..Len(steps) : i < j => steps[i] <= steps[j]

C12_DeliveryDoesNotMatter ==
  \A r, q \in RunIds :
    (Done(r) /\ Done(q) /\ run[r].rejected = run[q].rejected) =>
      /\ run[r].trace = run[q].trace
      /\ run[r].result = run[q].result
      /\ run[r].response = run[q].response

\* A run that lost progress events and a run that lost none have both ended
C12_Witness ==
  \E r, q \in RunIds :
    /\ Done(r) /\ Done(q)
    /\ run[r].rejected = run[q].rejected
    /\ run[r].undelivered = <<>>
    /\ run[q].undelivered # <<>>
    /\ Len(run[q].result) > 0

JustStarted(r) == run[r].st = "Running" /\ run[r].trace = <<>>

\* C13: when a run starts, the style cache and the selector cache are
\* empty (nothing cached during an earlier run can be read).
C13_CachesEmptyAtStart ==
  \A r \in RunIds : JustStarted(r) => caches = NoCaches

\* C14: a failed embedding call makes its element a cluster of its own and
\* the run goes on: the cluster stage does not fail because of it.
C14_EmbeddingFailureIsAbsorbed ==
  \A r \in RunIds : run[r].rejected => run[r].threw # "cluster"

\* C15: when the service fails for every batch, every element that entered the
\* classification stage leaves it with an elementType and a confidence set by
\* the rules; a button tag gets elementType "button" and confidence 0.9.
AllFallback(r) ==
  /\ run[r].pc = "quality"
  /\ Len(run[r].llm) > 0
  /\ \A b \in 1..Len(run[r].llm) : run[r].llm[b] = "fallback"

C15_FallbackClassifiesEveryElement ==
  \A r \in RunIds : AllFallback(r) =>
    /\ run[r].elements = run[r].analyzed
    /\ Len(run[r].llmAnalysis) = Len(run[r].analyzed)
    /\ \A k \in 1..Len(run[r].analyzed) :
         /\ run[r].llmAnalysis[k].elementType # "null"
         /\ run[r].llmAnalysis[k].confidence \in 0..100
         /\ Node(run[r].analyzed[k]).tag = "button" =>
              run[r].llmAnalysis[k] = [elementType |-> "button", confidence |-> 90]

\* A run that had a button and another element classified by the rules
C15_Witness ==
  \E r \in RunIds :
    /\ AllFallback(r)
    /\ Len(run[r].analyzed) > 1
    /\ \E k \in 1..Len(run[r].analyzed) : Node(run[r].analyzed[k]).tag = "button"

\* C16: a failed call of the service for a batch is retried, at most
\* retryAttempts times, and the rules are applied to the batch only after the
\* retries are used up: a batch that fell back had 1 + retryAttempts calls.
C16_FallbackOnlyAfterRetries ==
  \A r \in RunIds : \A b \in 1..Len(run[r].llm) :
    /\ run[r].calls[b] <= 1 + retryAttempts
    /\ run[r].llm[b] = "fallback" => run[r].calls[b] = 1 + retryAttempts

\* C17: when a stage that backfills leaves fewer than MIN_SURVIVORS_PER_STAGE
\* survivors of a larger input, the reinstated elements are exactly the
\* (MIN_SURVIVORS_PER_STAGE - survivors) highest-ranked ones it removed: no
\* removed element left out ranks above a reinstated one (rank: confidence,
\* then interactive first, then larger area).
BackfillStages == {"toplevel", "visibility", "iou", "structural", "quality"}

Outranks(a, b) ==
  \/ a.confidence > b.confidence
  \/ /\ a.confidence = b.confidence
     /\ isInteractiveElement(a) /\ ~isInteractiveElement(b)
  \/ /\ a.confidence = b.confidence
     /\ isInteractiveElement(a) = isInteractiveElement(b)
     /\ calculateArea(getBoundingClientRect(a)) > calculateArea(getBoundingClientRect(b))

Reinstated(last) == Range(last.handed) \ Range(last.survivors)

LeftOut(last) == Range(last.input) \ Range(last.handed)

C17_BackfillTakesHighestRanked ==
  \A r \in RunIds :
    LET last == run[r].last
    IN (/\ last.stage \in BackfillStages
        /\ Len(last.survivors) < MIN_SURVIVORS_PER_STAGE
        /\ Len(last.input) >= MIN_SURVIVORS_PER_STAGE) =>
         /\ Cardinality(Reinstated(last)) = MIN_SURVIVORS_PER_STAGE - Len(last.survivors)
         /\ \A a \in LeftOut(last) : \A b \in Reinstated(last) : ~Outranks(a, b)

\* C18: a run in which no selector resolved ends at once: it enters no stage
\* after the resolution, and it returns the empty list without an error.
NothingResolved(r) ==
  /\ run[r].st # "Idle"
  /\ run[r].selectors.array
  /\ run[r].pc # "resolve"
  /\ run[r].resolved = <<>>

C18_NothingResolvedEndsEarly ==
  \A r \in RunIds : NothingResolved(r) =>
    /\ run[r].trace = <<"resolve">>
    /\ run[r].threw = "none"
    /\ run[r].result = <<>>

\* C19: every selector that gives no element is recorded as removed, with the
\* reason of its own failure, and document.querySelector is called exactly
\* once for it (never for an entry that is not a string).
Failing(k) == calc.selectors[k] \notin DomIds

ExpectedReason(selector) ==
  CASE selector = NotFound -> "Element not found in DOM"
    [] selector = InvalidSelector -> "Invalid selector: SyntaxError"
    [] selector = NonString -> "Invalid selector type"

RemovedBy(pass) == Len(pass.input) - Len(pass.output)

Reapplied(fn) == calc.op = "list" /\ calc.fn = fn /\ Len(calc.outputs) = 2

C21_TopLevelIdempotent ==
  Reapplied("toplevel") => calc.outputs[2] = calc.outputs[1]

\* A list from which the first application removed an element
C21_Witness ==
  /\ Reapplied("toplevel")
  /\ Len(calc.outputs[1]) < Len(calc.elements)
  /\ Len(calc.outputs[1]) > 1

\* C22: each deduplication strategy (light, IoU, containment, text, cluster)
\* removes nothing from its own output.
C22_DedupStrategiesIdempotent ==
  \A fn \in {"light", "iou", "containment", "text", "cluster"} :
    Reapplied(fn) => calc.outputs[2] = calc.outputs[1]

\* C23: the final deduplication (light, IoU, containment, text in sequence)
\* removes nothing from its own output.
C23_FinalDedupIdempotent ==
  Reapplied("final") => calc.outputs[2] = calc.outputs[1]

\* C24: a candidate whose element handle is stale (the element left the
\* document) or unresolvable (null, or an object that is no element) is not
\* among the survivors of the visibility stage, the reason recorded for it is
\* "Invalid element", and the other candidates are filtered as they are
\* without it.
StaleOrUnresolvable(e) == ~e.dom \/ e.id = Page2Id(8)
C24_StaleHandleIsInvalidElement ==
  (calc.op = "list" /\ calc.fn = "visibility" /\ Len(calc.outputs) >= 1) =>
    LET Sound(e) == ~StaleOrUnresolvable(e)
    IN /\ \A i \in 1..Len(calc.elements) :
            StaleOrUnresolvable(calc.elements[i]) =>
              /\ ~Includes(calc.outputs[1], calc.elements[i])
              /\ cssRemovedReason(calc.elements[i]) = "Invalid element"
       /\ calc.outputs[1] =
            applyComprehensiveVisibilityFilteringWithReasons(
              SelectSeq(calc.elements, Sound)).survivors

\* C25: in containment deduplication, for every pair of input candidates a
\* and b with containment(a, b) above IOU_CONTAINMENT, the smaller of the two
\* is not among the survivors.
C25_ContainedSmallerRemoved ==
  (calc.op = "list" /\ calc.fn = "containment" /\ Len(calc.outputs) >= 1) =>
    \A i, j \in 1..Len(calc.elements) :
      LET a == calc.elements[i]
          b == calc.elements[j]
          rectA == getBoundingClientRect(a)
          rectB == getBoundingClientRect(b)
      IN (/\ a.id # b.id
          /\ calculateArea(rectA) < calculateArea(rectB)
          /\ Exceeds(calculateContainment(rectA, rectB), IOU_CONTAINMENT))
         => ~Includes(calc.outputs[1], a)

\* C26: in text deduplication, of all input candidates sharing the same
\* non-empty normalized (trimmed, lower-cased) text exactly one survives, and
\* its top + left score is the smallest among them, whatever the input order.
TextScore(e) == getBoundingClientRect(e).y + getBoundingClientRect(e).x
C26_TextDedupKeepsBestPlaced ==
  (calc.op = "list" /\ calc.fn = "text" /\ Len(calc.outputs) >= 1) =>
    \A i \in 1..Len(calc.elements) :
      LET text == normalizedText(calc.elements[i])
          kept == {k \in 1..Len(calc.outputs[1]) : normalizedText(calc.outputs[1][k]) = text}
      IN Len(text) > 0 =>
           /\ Cardinality(kept) = 1
           /\ \A k \in kept :
                /\ Includes(calc.elements, calc.outputs[1][k])
                /\ \A j \in 1..Len(calc.elements) :
                     normalizedText(calc.elements[j]) = text =>
                       TextScore(calc.outputs[1][k]) <= TextScore(calc.elements[j])

\* Three different candidates of one text, the best placed one last
C26_Witness ==
  /\ calc.op = "list" /\ calc.fn = "text" /\ Len(calc.outputs) >= 1
  /\ Len(calc.elements) = 3
  /\ \A i, j \in 1..3 :
       /\ normalizedText(calc.elements[i]) = normalizedText(calc.elements[j])
       /\ i < j => TextScore(calc.elements[j]) < TextScore(calc.elements[i])
  /\ Len(normalizedText(calc.elements[1])) > 0
  /\ calc.outputs[1] = <<calc.elements[3]>>

\* C27: after ranking, the list is a permutation of the input in which, for
\* every adjacent pair, the earlier candidate has the higher confidence, or
\* equal confidence and is interactive while the later is not, or equal
\* confidence and interactivity and an area not smaller than the later one's.
Ranked == calc.op = "list" /\ calc.fn \in {"sort", "sortscored"} /\ Len(calc.outputs) >= 1
Area(e) == calculateArea(getBoundingClientRect(e))
Count(s, x) == Cardinality({i \in 1..Len(s) : s[i] = x})
InRankOrder(a, b) ==
  \/ a.confidence > b.confidence
  \/ /\ a.confidence = b.confidence
     /\ isInteractiveElement(a) /\ ~isInteractiveElement(b)
  \/ /\ a.confidence = b.confidence
     /\ isInteractiveElement(a) = isInteractiveElement(b)
     /\ Area(a) >= Area(b)
C27_RankedOrder ==
  Ranked =>
    /\ ~sortByRelevance(calc.elements).threw
    /\ \A i \in 1..Len(calc.elements) :
         Count(calc.outputs[1], calc.elements[i]) = Count(calc.elements, calc.elements[i])
    /\ Len(calc.outputs[1]) = Len(calc.elements)
    /\ \A k \in 1..(Len(calc.outputs[1]) - 1) :
         InRankOrder(calc.outputs[1][k], calc.outputs[1][k + 1])

\* C28: ranking is stable: two candidates with equal confidence, equal
\* interactivity and equal area appear in the ranked output in the same
\* relative order as in the input.
C28_RankingIsStable ==
  Ranked =>
    \A i, j \in 1..Len(calc.elements) :
      LET a == calc.elements[i]
          b == calc.elements[j]
      IN (/\ i < j
          /\ Count(calc.elements, a) = 1 /\ Count(calc.elements, b) = 1
          /\ a.confidence = b.confidence
          /\ isInteractiveElement(a) = isInteractiveElement(b)
          /\ Area(a) = Area(b))
         => \E p, q \in 1..Len(calc.outputs[1]) :
              p < q /\ calc.outputs[1][p] = a /\ calc.outputs[1][q] = b

\* C29: for every candidate reaching the confidence-scoring stage a
\* confidence is defined, lies in [0, 1] (hundredths: 0..100) and equals
\* min(1, 0.5 + 0.3 if interactive + 0.2 if it has text + 0.1 if it has a
\* role + 0.1 if its area exceeds 1000).
C29_ConfidenceDefined ==
  \A r \in RunIds :
    Includes(run[r].trace, "confidence") =>
      /\ run[r].threw # "confidence"
      /\ \A i \in 1..Len(run[r].elements) :
           LET c == run[r].elements[i]
               boosts == (IF isInteractiveElement(c) THEN 30 ELSE 0)
                           + (IF Len(innerTextTrimmed(c)) > 0 THEN 20 ELSE 0)
                           + (IF Node(c).attrs.role # "" THEN 10 ELSE 0)
                           + (IF Area(c) > 1000 THEN 10 ELSE 0)
           IN /\ c.confidence \in 0..100
              /\ c.confidence = Min(100, 50 + boosts)

\* C30: iou(a, a) = 1 for every box a with non-negative width and height.
Measured == calc.op = "box" /\ Len(calc.outputs) = 1
IsOne(r) == r.den > 0 /\ r.num = r.den
IsZero(r) == r.den > 0 /\ r.num = 0
C31_ContainmentInUnitInterval ==
  (calc.op = "numbers" /\ Len(calc.outputs) = 1) =>
    ~Less(calc.outputs[1].containment.den, calc.outputs[1].containment.num)

\* C32: the structural classifier returns keep=false only for candidates that
\* match none of the ten keep rules: a candidate matching at least one rule is
\* kept, with the reason of the first matching rule in the listed order.
\* The ten rules as listed: interactive (tag, role, click handler, pointer
\* cursor), text, landmark tag, landmark role, area, children, ARIA
\* attribute, form, data attribute, identifier.
KeepRules(c) ==
  LET n == Node(c)
  IN << \/ n.tag \in {"button", "input", "select", "textarea", "a"}
        \/ n.attrs.role \in {"button", "link"}
        \/ n.attrs.onclick
        \/ n.attrs.cursor = "pointer",
        Len(innerTextTrimmed(c)) > 0,
        n.tag \in {"nav", "header", "footer", "main", "section", "article", "aside"},
        n.attrs.role \in {"navigation", "banner", "contentinfo", "main", "region",
                          "complementary", "search", "form", "application", "document",
                          "content", "note", "log", "marquee", "status", "timer", "toolbar"},
        n.rect.width * n.rect.height > 50000,
        n.attrs.children >= 5,
        n.attrs.aria,
        n.tag = "form" \/ n.attrs.inForm,
        n.attrs.data # "",
        n.attrs.meaningfulId >>
KeepReasons ==
  <<"Interactive element", "Has text content", "Structural tag", "Landmark role",
    "Large area", "Many visible children", "Has ARIA attributes", "Form-related element",
    "Has data attributes", "Meaningful ID">>
C32_KeptIffSomeRule ==
  (calc.op = "list" /\ calc.fn = "quality" /\ Len(calc.outputs) >= 1) =>
    \A i \in 1..Len(calc.elements) :
      LET c == calc.elements[i]
          matching == {k \in 1..10 : KeepRules(c)[k]}
          analysis == isFundamentalUIComponent(c)
      IN /\ Includes(calc.outputs[1], c) <=> matching # {}
         /\ analysis.isFundamental <=> matching # {}
         /\ matching # {} => analysis.reason = KeepReasons[MinOf(matching)]

\* C33: the interactive-first reorder removes and adds nothing: its output is
\* a permutation of its input in which every interactive candidate precedes
\* every non-interactive one and the relative order within each group is
\* unchanged.
C33_ReorderIsStablePartition ==
  (calc.op = "list" /\ calc.fn = "prioritize" /\ Len(calc.outputs) >= 1) =>
    LET in == calc.elements
        out == calc.outputs[1]
        n == Len(in)
    IN /\ Len(out) = n
       /\ \A i, j \in 1..n :
            i < j => ~(~isInteractiveElement(out[i]) /\ isInteractiveElement(out[j]))
       /\ \E p \in [1..n -> 1..n] :
            /\ \A i, j \in 1..n : i # j => p[i] # p[j]
            /\ \A i \in 1..n : out[i] = in[p[i]]
            /\ \A i, j \in 1..n :
                 (i < j /\ isInteractiveElement(out[i]) = isInteractiveElement(out[j]))
                   => p[i] < p[j]

\* Two links behind a div: the reorder moves both before it, in their order
C33_Witness ==
  /\ calc.op = "list" /\ calc.fn = "prioritize" /\ Len(calc.outputs) >= 1
  /\ calc.elements = <<Element(7), Element(3), Element(2)>>
  /\ calc.outputs[1] = <<Element(3), Element(2), Element(7)>>

\* The handleRunInspect invocations whose collection is in progress: those
\* suspended at their await of collectInteractiveElementsByHover
Collections ==
  IF calc.op = "inspect"
  THEN {i \in 1..Len(calc.calls) : calc.calls[i].action = "RUN_INSPECT" /\ calc.calls[i].pc = "awaiting"}
  ELSE {}

\* C34: at most one element collection (the body of handleRunInspect) is in
\* progress at any time, for every interleaving of RUN_INSPECT and
\* STOP_INSPECT messages
C34_AtMostOneCollection ==
  Cardinality(Collections) <= 1 /\ collecting <= 1

\* The recorded RUN_INSPECT messages
Inspections ==
  IF calc.op = "inspect"
  THEN {i \in 1..Len(calc.calls) : calc.calls[i].action = "RUN_INSPECT"}
  ELSE {}

C36_NoSurvivorsOverThreshold ==
  (calc.op = "list" /\ calc.fn = "iou" /\ Len(calc.outputs) >= 1) =>
    LET unique == calc.outputs[1]
    IN \A i, j \in 1..Len(unique) :
         i # j => ~Exceeds(calculateIoU(getBoundingClientRect(unique[i]),
                                        getBoundingClientRect(unique[j])), IOU_DEDUPE)

\* a.confidence >= b.confidence as the script would evaluate it: false when
\* either candidate carries no confidence (undefined >= undefined is false)
ConfidenceNotBelow(a, b) ==
  a.confidence # NoConfidence /\ b.confidence # NoConfidence /\ a.confidence >= b.confidence

\* C37: the list returned by a completed run is ordered by confidence
\* descending: no candidate of lower confidence stands before one of higher
\* confidence after the final deduplication and the validity filter
C37_ReturnedByConfidence ==
  \A r \in RunIds :
    run[r].st = "Complete" =>
      \A i, j \in 1..Len(run[r].result) :
        i < j => ConfidenceNotBelow(run[r].result[i], run[r].result[j])

\* The elements of the batches, batch after batch
RECURSIVE Joined(_)
Joined(batches) ==
  IF batches = <<>> THEN <<>> ELSE Head(batches) \o Joined(Tail(batches))

\* C38: the classification stage removes nothing and keeps the order: the
\* batches are consecutive slices of at most 5 candidates, every candidate
\* is in exactly one batch, and the output holds the input's candidates in
\* the input's order, whether a batch was answered by the service or by
\* the fallback
C38_ClassificationKeepsAll ==
  calc.op = "classify" =>
    /\ \A b \in 1..Len(calc.batches) : Len(calc.batches[b]) \in 1..batchSize
    /\ Joined(calc.batches) = SubSeq(calc.elements, 1, Len(Joined(calc.batches)))
    /\ calc.analyzed = Joined(calc.batches)
    /\ calc.returned => Joined(calc.batches) = calc.elements /\ calc.output = calc.elements

\* Eleven candidates went through three batches, the last of one candidate,
\* one batch answered by the service and one by the fallback
C38_Witness ==
  /\ calc.op = "classify" /\ calc.returned
  /\ Len(calc.elements) = 11 /\ Len(calc.batches) = 3 /\ Len(calc.batches[3]) = 1
  /\ calc.llm = <<"service", "fallback", "service">>
  /\ calc.elements[5] # calc.elements[6]

\* C39: isCollecting is false whenever no handleRunInspect invocation is in
\* progress and true whenever one is: set on entry, released on every exit
\* path, and not cleared while a collection is still running
C39_FlagTracksCollection ==
  calc.op = "inspect" => (isCollecting <=> Collections # {})

====
